---------------------------- MODULE Spec2Model ----------------------------
(***************************************************************************)
(* Model of the two-variable linear programming solver: Constraint and     *)
(* LPProblem (src/models/lp_problem.py), Calculator                        *)
(* (src/modules/calc_module.py) and the handlers of MainWindow that move   *)
(* the current point (src/ui/main_window.py).                              *)
(*                                                                         *)
(* Numbers.  The program computes in binary floating point on the          *)
(* coefficients it is given.  The model draws all coefficients from        *)
(* integers and computes with exact rationals n/d (d > 0); every number    *)
(* kept in the state or returned is in lowest terms.                       *)
(* A coordinate of a corner point is the exact solution of its two         *)
(* boundary equations.  The float the program holds is that number when    *)
(* the elimination of np.linalg.solve is free of rounding (solved_exactly: *)
(* both pivots are powers of two), and that number up to the rounding of   *)
(* the elimination otherwise (rounded).  How large the rounding is depends *)
(* on the size of the coefficients and on the angle of the two lines.  A   *)
(* test against the tolerance 1e-10 is decided by the exact numbers only   *)
(* where a bound of the rounding shows that it cannot change the outcome   *)
(* (det_below_tolerance, test_decided); elsewhere the outcome is the one   *)
(* of the build of the library the program runs on, which the state holds  *)
(* as numpy and which every specification fixes at the start.  The point   *)
(* np.linalg.solve returns for a singular matrix is kept as Undetermined.  *)
(* A comparison of two floats for order is decided by the exact numbers    *)
(* when these differ by more than the roundings; otherwise it is decided   *)
(* by the rounding errors, which the model leaves open:                    *)
(* find_optimal_solution has one outcome for every order the errors can    *)
(* have (Roundings).                                                       *)
(* The samples of the grid of suggest_initial_point are k*10/19; their     *)
(* rounding is far below the tolerance of the feasibility test applied to  *)
(* them.  The objectives of the moves along the gradient have an integer   *)
(* norm; the components of their unit vectors (such as 3/5) are rounded by *)
(* the program in the last binary place, far below the same tolerance.     *)
(* The tolerance 1e-10 of the code is kept as the rational 1/EpsRoot^2 and *)
(* every comparison against it is made as the code makes it.               *)
(***************************************************************************)
EXTENDS Integers, Sequences, FiniteSets, TLC

VARIABLES
    c1,             \* LPProblem.c1
    c2,             \* LPProblem.c2
    constraints,    \* LPProblem.constraints: sequence of Constraint
    corner_points,  \* LPProblem.corner_points: the cached sequence
    ret,            \* the value returned by the operation just performed
    computed_on,    \* history: the constraint list find_corner_points last ran on
    main_window,    \* MainWindow: current_point and the point shown by its graph
    numpy           \* the build of numpy: how its roundings decide the tests they reach

vars == <<c1, c2, constraints, corner_points, ret, computed_on, main_window, numpy>>

---------------------------------------------------------------------------
(* Bounds of the model *)

\* the longest constraint list built by add_constraint under Spec
MaxConstraints == 3
\* the longest constraint list a problem starts with under SpecPure
MaxLen == 4

\* the longest constraint list a problem starts with under SpecBounded
MaxBoundLen == 4

\* the longest constraint list built by add_constraint under SpecEdit
MaxEditLen == 3

\* the longest constraint list a problem starts with under SpecFeasible
MaxFeasLen == 2

\* the longest constraint list a problem starts with under SpecSuggest
MaxSuggestLen == 3

\* the longest constraint list a problem starts with under SpecDict
MaxDictLen == 2

\* the longest constraint list a problem starts with under SpecGradient
MaxGradientLen == 1

\* the longest constraint list a problem starts with under SpecMove
MaxMoveLen == 2
\* the largest absolute coordinate of a current point under SpecMove
MaxCoordinate == 5

\* the largest number of lines of a constraints text under SpecParse
MaxLines == 2

\* longest constraint list whose boundary lines are sampled
MaxLineLen == 1

\* longest constraint list of the bounded problems that are solved
MaxExactLen == 5

\* the longest constraint list a problem starts with under SpecTies
MaxTieLen == 4

\* most rows of the constraints table, and most problems opened or created
MaxRows == 2
MaxProblems == 1

\* longest constraint list with equations that is asked is_bounded
MaxEquationLen == 5

\* most constraint records of a dictionary given to from_dict
MaxLoadLen == 2

---------------------------------------------------------------------------
(* Exact rational arithmetic *)

Abs(n) == IF n < 0 THEN -n ELSE n

RECURSIVE GCD(_, _)
GCD(a, b) == IF b = 0 THEN a ELSE GCD(b, a % b)

\* a float whose value the model does not determine: a coordinate of the
\* point np.linalg.solve returns for a singular matrix, or a number computed
\* from one.  It is the only number with the denominator 0.
Undetermined == [n |-> 0, d |-> 0]

\* the rational n/d in lowest terms with a positive denominator
Rat(n, d) ==
    IF d = 0 THEN Undetermined
    ELSE LET g == GCD(Abs(n), Abs(d))
             s == IF d < 0 THEN -1 ELSE 1
         IN  [n |-> s * (n \div g), d |-> s * (d \div g)]

\* the same rational in lowest terms
Norm(r) == Rat(r.n, r.d)

\* arithmetic and comparison on fractions with positive denominators; the
\* results are not reduced
RatInt(k)      == [n |-> k, d |-> 1]
RatAdd(r, s)   == [n |-> r.n * s.d + s.n * r.d, d |-> r.d * s.d]
RatSub(r, s)   == [n |-> r.n * s.d - s.n * r.d, d |-> r.d * s.d]
RatScale(k, r) == [n |-> k * r.n, d |-> r.d]
RatNeg(r)      == [n |-> -r.n, d |-> r.d]
RatAbs(r)      == [n |-> Abs(r.n), d |-> r.d]
RatLess(r, s)  == r.n * s.d < s.n * r.d
RatLeq(r, s)   == r.n * s.d <= s.n * r.d

\* The tolerance 1e-10 is 1/(EpsRoot*EpsRoot).
EpsRoot == 100000

\* r <= 1e-10, i.e. r.n * 10^10 <= r.d, i.e. r.n <= floor(r.d / 10^10)
LeqEps(r) == r.n <= (r.d \div EpsRoot) \div EpsRoot

\* r < 1e-10, i.e. r.n * 10^10 <= r.d - 1
LessEps(r) == r.n <= ((r.d - 1) \div EpsRoot) \div EpsRoot

---------------------------------------------------------------------------
(* ConstraintType and Constraint *)

LESS_EQUAL    == "LESS_EQUAL"
EQUAL         == "EQUAL"
GREATER_EQUAL == "GREATER_EQUAL"
ConstraintType == {LESS_EQUAL, EQUAL, GREATER_EQUAL}

\* Constraint.__init__
Constraint(a1, a2, b, constraint_type) ==
    [a1 |-> a1, a2 |-> a2, b |-> b, constraint_type |-> constraint_type]

\* left_side = a1*x1 + a2*x2
left_side(c, x1, x2) == RatAdd(RatScale(c.a1, x1), RatScale(c.a2, x2))

\* Mutation of is_satisfied: the tolerance of >= is applied with the wrong sign
is_satisfied_wrong_sign(c, x1, x2) ==
    LET diff == RatSub(left_side(c, x1, x2), RatInt(c.b))
    IN  IF c.constraint_type = LESS_EQUAL
            THEN LeqEps(diff)
        ELSE IF c.constraint_type = EQUAL
            THEN LeqEps(RatAbs(diff))
        ELSE ~LessEps(diff)                \* left_side >= b + eps

\* Constraint.is_satisfied with the default eps = 1e-10
is_satisfied(c, x1, x2) ==
    LET diff == RatSub(left_side(c, x1, x2), RatInt(c.b))
    IN  IF c.constraint_type = LESS_EQUAL
            THEN LeqEps(diff)              \* left_side <= b + eps
        ELSE IF c.constraint_type = EQUAL
            THEN LeqEps(RatAbs(diff))      \* abs(left_side - b) <= eps
        ELSE LeqEps(RatNeg(diff))          \* left_side >= b - eps

\* a tolerance eps = n / r^2 with n >= 0, r > 0; 1e-10 is 1 / EpsRoot^2
Tol(n, r) == [n |-> n, r |-> r]
DefaultEps == Tol(1, EpsRoot)

\* r <= eps for a fraction r = n/d with d > 0
LeqTol(r, eps) == r.n <= ((eps.n * r.d) \div eps.r) \div eps.r

\* Mutation of is_satisfied_eps: the comparisons are strict
is_satisfied_eps_strict(c, x1, x2, eps) ==
    LET diff == RatSub(left_side(c, x1, x2), RatInt(c.b))
        neg  == Tol(-eps.n, eps.r)
    IN  IF c.constraint_type = LESS_EQUAL
            THEN ~LeqTol(RatNeg(diff), neg)          \* left_side < b + eps
        ELSE IF c.constraint_type = EQUAL
            THEN ~LeqTol(RatNeg(RatAbs(diff)), neg)  \* abs(left_side - b) < eps
        ELSE ~LeqTol(diff, neg)                      \* left_side > b - eps

\* Constraint.is_satisfied with the tolerance eps given
is_satisfied_eps(c, x1, x2, eps) ==
    LET diff == RatSub(left_side(c, x1, x2), RatInt(c.b))
    IN  IF c.constraint_type = LESS_EQUAL
            THEN LeqTol(diff, eps)              \* left_side <= b + eps
        ELSE IF c.constraint_type = EQUAL
            THEN LeqTol(RatAbs(diff), eps)      \* abs(left_side - b) <= eps
        ELSE LeqTol(RatNeg(diff), eps)          \* left_side >= b - eps

---------------------------------------------------------------------------
(* LPProblem: a record of the four attributes *)

LPProblem(pc1, pc2) ==
    [c1 |-> pc1, c2 |-> pc2, constraints |-> <<>>, corner_points |-> <<>>]

\* Mutation of add_constraint: the cached corner points are dropped
add_constraint_invalidating(p, a1, a2, b, constraint_type) ==
    [p EXCEPT !.constraints = Append(@, Constraint(a1, a2, b, constraint_type)),
              !.corner_points = <<>>]

\* Mutation of add_constraint: the constraint is put at the head of the list
add_constraint_at_head(p, a1, a2, b, constraint_type) ==
    [p EXCEPT !.constraints = <<Constraint(a1, a2, b, constraint_type)>> \o @]

add_constraint(p, a1, a2, b, constraint_type) ==
    [p EXCEPT !.constraints = Append(@, Constraint(a1, a2, b, constraint_type))]

\* list.pop(index) for 0 <= index < len: positions are 0-based as in the code
Pop(s, index) ==
    [k \in 1..(Len(s) - 1) |-> IF k <= index THEN s[k] ELSE s[k + 1]]

\* Mutation of remove_constraint: index >= 0 is not tested, so that a negative
\* index counts from the end of the list as list.pop does
remove_constraint_from_end(p, index) ==
    IF 0 <= index /\ index < Len(p.constraints)
        THEN [p EXCEPT !.constraints = Pop(@, index)]
    ELSE IF index < 0 /\ -index <= Len(p.constraints)
        THEN [p EXCEPT !.constraints = Pop(@, Len(@) + index)]
    ELSE p

remove_constraint(p, index) ==
    IF 0 <= index /\ index < Len(p.constraints)
        THEN [p EXCEPT !.constraints = Pop(@, index)]
        ELSE p

\* c * x: the product with the coefficient 0 is 0.0 for every finite float x
term(c, x) == IF c = 0 THEN RatInt(0) ELSE RatScale(c, x)

objective_value(p, x1, x2) == Norm(RatAdd(term(p.c1, x1), term(p.c2, x2)))

gradient(p) == <<p.c1, p.c2>>

\* Mutation of is_feasible: one satisfied constraint is enough
is_feasible_any(p, x1, x2) ==
    \E k \in 1..Len(p.constraints) : is_satisfied(p.constraints[k], x1, x2)

is_feasible(p, x1, x2) ==
    \A k \in 1..Len(p.constraints) : is_satisfied(p.constraints[k], x1, x2)

RatMul(r, s) == [n |-> r.n * s.n, d |-> r.d * s.d]

\* n ** 0.5 for a perfect square n: the objectives of the moves have
\* c1^2 + c2^2 a perfect square, so that the norm is computed exactly
sqrt(n) == CHOOSE r \in 0..n : r * r = n

\* Mutation of move_in_gradient_direction: a gradient close to zero is
\* replaced by the direction (1, 0)
move_in_gradient_direction_default_direction(p, x1, x2, step, anti_gradient) ==
    LET grad_x1 == IF anti_gradient THEN -gradient(p)[1] ELSE gradient(p)[1]
        grad_x2 == IF anti_gradient THEN -gradient(p)[2] ELSE gradient(p)[2]
        norm    == sqrt(grad_x1 * grad_x1 + grad_x2 * grad_x2)
    IN  IF LessEps(RatInt(norm)) THEN <<Norm(RatAdd(x1, step)), x2>>
        ELSE << Norm(RatAdd(x1, RatMul(step, Rat(grad_x1, norm)))),
                Norm(RatAdd(x2, RatMul(step, Rat(grad_x2, norm)))) >>

\* Mutation of move_in_gradient_direction: the gradient is not normalised
move_in_gradient_direction_unnormalised(p, x1, x2, step, anti_gradient) ==
    LET grad_x1 == IF anti_gradient THEN -gradient(p)[1] ELSE gradient(p)[1]
        grad_x2 == IF anti_gradient THEN -gradient(p)[2] ELSE gradient(p)[2]
        norm    == sqrt(grad_x1 * grad_x1 + grad_x2 * grad_x2)
    IN  IF LessEps(RatInt(norm)) THEN <<x1, x2>>
        ELSE << Norm(RatAdd(x1, RatMul(step, RatInt(grad_x1)))),
                Norm(RatAdd(x2, RatMul(step, RatInt(grad_x2)))) >>

\* LPProblem.move_in_gradient_direction: the new point; the problem is not
\* assigned to
move_in_gradient_direction(p, x1, x2, step, anti_gradient) ==
    LET grad_x1 == IF anti_gradient THEN -gradient(p)[1] ELSE gradient(p)[1]
        grad_x2 == IF anti_gradient THEN -gradient(p)[2] ELSE gradient(p)[2]
        norm    == sqrt(grad_x1 * grad_x1 + grad_x2 * grad_x2)
    IN  IF LessEps(RatInt(norm)) THEN <<x1, x2>>       \* norm < 1e-10
        ELSE << Norm(RatAdd(x1, RatMul(step, Rat(grad_x1, norm)))),
                Norm(RatAdd(x2, RatMul(step, Rat(grad_x2, norm)))) >>

\* ConstraintType.value: the glyph of a kind.  The glyphs of <= and >= are
\* named by their code points, U+2264 and U+2265.
GlyphLE == "U+2264"
GlyphEQ == "="
GlyphGE == "U+2265"
type_value(constraint_type) ==
    IF constraint_type = LESS_EQUAL THEN GlyphLE
    ELSE IF constraint_type = EQUAL THEN GlyphEQ
    ELSE GlyphGE

\* LPProblem.to_dict
to_dict(p) ==
    [c1 |-> p.c1, c2 |-> p.c2,
     constraints |->
        [k \in 1..Len(p.constraints) |->
            [a1 |-> p.constraints[k].a1, a2 |-> p.constraints[k].a2,
             b |-> p.constraints[k].b,
             type |-> type_value(p.constraints[k].constraint_type)]]]

\* Mutation of constr_type: the kind <= is looked for under its ASCII spelling
constr_type_ascii(type) ==
    IF type = "<=" THEN LESS_EQUAL
    ELSE IF type = GlyphEQ THEN EQUAL
    ELSE GREATER_EQUAL

\* from_dict: the kind read from the "type" entry of a constraint record
constr_type(type) ==
    IF type = GlyphLE THEN LESS_EQUAL
    ELSE IF type = GlyphEQ THEN EQUAL
    ELSE GREATER_EQUAL

\* Mutation of from_dict_loop: a record whose "type" is none of the three
\* glyphs is left out
RECURSIVE from_dict_loop_skipping(_, _, _)
from_dict_loop_skipping(data, k, problem) ==
    IF k > Len(data.constraints) THEN problem
    ELSE LET constr_data == data.constraints[k]
         IN  IF constr_data.type \in {GlyphLE, GlyphEQ, GlyphGE}
                 THEN from_dict_loop_skipping(data, k + 1,
                          add_constraint(problem, constr_data.a1, constr_data.a2,
                                         constr_data.b, constr_type(constr_data.type)))
                 ELSE from_dict_loop_skipping(data, k + 1, problem)

\* from_dict: the loop over data["constraints"] from position k on
RECURSIVE from_dict_loop(_, _, _)
from_dict_loop(data, k, problem) ==
    IF k > Len(data.constraints) THEN problem
    ELSE LET constr_data == data.constraints[k]
         IN  from_dict_loop(data, k + 1,
                 add_constraint(problem, constr_data.a1, constr_data.a2,
                                constr_data.b, constr_type(constr_data.type)))

\* LPProblem.from_dict
from_dict(data) == from_dict_loop(data, 1, LPProblem(data.c1, data.c2))

\* np.linalg.det of A = [[constr1.a1, constr1.a2], [constr2.a1, constr2.a2]]:
\* the determinant of the integers.  The float the library returns is its
\* rounding.  For a determinant that is not 0 the two differ in the last
\* binary places; for a determinant that is 0 the float is 0.0 or a number
\* of the size of the roundings of the elimination (det_below_tolerance).
det(constr1, constr2) == constr1.a1 * constr2.a2 - constr1.a2 * constr2.a1

\* A = np.array([[constr1.a1, constr1.a2], [constr2.a1, constr2.a2]])
array_A(constr1, constr2) ==
    <<<<constr1.a1, constr1.a2>>, <<constr2.a1, constr2.a2>>>>

\* Mutation of array_b: the right side of the first constraint is used twice
array_b_first_twice(constr1, constr2) == <<constr1.b, constr1.b>>

\* b = np.array([constr1.b, constr2.b])
array_b(constr1, constr2) == <<constr1.b, constr2.b>>

(***************************************************************************)
(* The floating-point library.  np.linalg.det and np.linalg.solve factor A *)
(* by elimination with partial pivoting: the first pivot is the entry of   *)
(* the first column that is larger in absolute value (the upper one when   *)
(* they are equal), the multiplier is the other entry divided by the pivot *)
(* or multiplied by its reciprocal, and the second pivot is what the       *)
(* elimination leaves in the second column.  Which of the two it does, and *)
(* whether a product and a sum are rounded once or twice, depends on the   *)
(* build of the library.  Where the exact numbers decide what the program  *)
(* does, the definitions below compute it from them; where they do not,    *)
(* the outcome is the one of the build the program runs on, numpy:         *)
(*   large_det      the singular matrices A whose computed determinant is  *)
(*                  not below 1e-10 in absolute value;                     *)
(*   nonzero_pivot  the singular matrices A whose computed second pivot is *)
(*                  not 0.0, for which np.linalg.solve returns a point;    *)
(*   flipped        the feasibility tests of find_corner_points, each      *)
(*                  named by the constraint list and the two positions,    *)
(*                  that come out other than on the exact intersection     *)
(*                  (for the point of a singular matrix: that accept it).  *)
(* A build decides the same computation the same way every time.           *)
(***************************************************************************)
ExactBuild == [large_det |-> {}, nonzero_pivot |-> {}, flipped |-> {}]

RECURSIVE IsPowerOfTwo(_)
IsPowerOfTwo(n) == n >= 1 /\ (n = 1 \/ (n % 2 = 0 /\ IsPowerOfTwo(n \div 2)))

\* the first pivot of the elimination of A
first_pivot(A) == IF Abs(A[2][1]) > Abs(A[1][1]) THEN A[2][1] ELSE A[1][1]

\* the elimination of a singular A leaves exactly 0.0 as the second pivot in
\* every build: a column or a row of A is 0, or the first pivot is a power
\* of two, so that the multiplier and its product are not rounded
eliminated_to_zero(A) ==
    \/ A[1][1] * A[2][2] = 0
    \/ IsPowerOfTwo(Abs(first_pivot(A)))

\* 1e-10 / (3 * 2^-53), rounded down to thousands.  The second pivot a
\* build computes for a singular A is at most three roundings of
\* a12 * a21 / pivot, and the determinant is the first pivot times the
\* second: below 1e-10 in absolute value when |a12 * a21| is at most this.
DetSafe == 300000

\* abs(np.linalg.det(A)) < 1e-10
det_below_tolerance(constr1, constr2) ==
    IF det(constr1, constr2) # 0
        THEN LessEps(RatInt(Abs(det(constr1, constr2))))
        ELSE \/ eliminated_to_zero(array_A(constr1, constr2))
             \/ Abs(constr1.a1 * constr2.a2) <= DetSafe
             \/ array_A(constr1, constr2) \notin numpy.large_det

\* np.linalg.solve(A, b): the unique solution of a regular system; the
\* rationals are that solution, and the floats the library returns are
\* these numbers up to the rounding of its elimination.  For a singular A
\* the library raises LinAlgError when its second pivot is 0.0 and returns
\* the quotients by a second pivot of the size of a rounding otherwise.
LinAlgError == [singular |-> TRUE]
Solved(x1, x2) == [singular |-> FALSE, x1 |-> x1, x2 |-> x2]

solve(A, b) ==
    LET d == A[1][1] * A[2][2] - A[1][2] * A[2][1]
    IN  IF d = 0
            THEN IF eliminated_to_zero(A) \/ A \notin numpy.nonzero_pivot
                     THEN LinAlgError
                     ELSE Solved(Undetermined, Undetermined)
        ELSE Solved(Rat(b[1] * A[2][2] - A[1][2] * b[2], d),
                    Rat(A[1][1] * b[2] - b[1] * A[2][1], d))

\* When both pivots of a regular A are powers of two every product,
\* difference and quotient of the elimination on the small integers of A
\* and b is a binary fraction of a few bits, so the floats returned are the
\* exact solution in every build of the library.  With any other pivot a
\* quotient may be rounded, and the floats may differ from the solution.
solved_exactly(A) ==
    LET d == A[1][1] * A[2][2] - A[1][2] * A[2][1]
    IN  /\ d # 0
        /\ first_pivot(A) # 0
        /\ IsPowerOfTwo(Abs(first_pivot(A)))
        /\ IsPowerOfTwo(Rat(Abs(d), Abs(first_pivot(A))).n)

undetermined(x1, x2) == x1.d = 0 \/ x2.d = 0

\* the smallest integer that is not below |x|
ceil_abs(x) == (Abs(x.n) + x.d - 1) \div x.d

\* the largest absolute value of an entry of A
largest(A) ==
    CHOOSE m \in {Abs(A[1][1]), Abs(A[1][2]), Abs(A[2][1]), Abs(A[2][2])} :
        \A e \in {Abs(A[1][1]), Abs(A[1][2]), Abs(A[2][1]), Abs(A[2][2])} : e <= m

\* a bound of the condition number of a regular A: the norm of A is at most
\* 2 * largest(A), that of its inverse at most 2 * largest(A) / |det(A)|
condition(A) ==
    (4 * largest(A) * largest(A))
        \div Abs(A[1][1] * A[2][2] - A[1][2] * A[2][1]) + 1

\* 1e-10 / (64 * 2^-53), rounded down to thousands.  The elimination is
\* backward stable: the floats (x1, x2) it returns for a regular A leave in
\* the two equations a residual of at most 24 roundings of
\* largest(A) * max(|x1|, |x2|), they differ from the solution by that
\* residual times the norm of the inverse, and a1*x1 + a2*x2 - b is
\* evaluated with 3 roundings more.  So the float left_side - b of a
\* constraint differs from the exact one by at most 64 * 2^-53 * units, with
\* units = largest(A) * ceil(max|x|) + |b| for the two constraints of the
\* system and units = condition(A) * ceil(max|x|) * (|a1| + |a2|) + |b| for
\* any other constraint; the same holds for c1*x1 + c2*x2 with (c1, c2) for
\* (a1, a2) and no b.  Up to RoundingSafe units the difference is below the
\* tolerance 1e-10.
RoundingSafe == 14000

\* g * x * w + extra <= RoundingSafe
within_safe(g, x, w, extra) ==
    /\ g <= RoundingSafe
    /\ x <= RoundingSafe
    /\ w <= RoundingSafe
    /\ g * x <= RoundingSafe
    /\ g * x * w + extra <= RoundingSafe

\* floor(1000 * |r|) for r = n/d, or a smaller number when that is too
\* large to be computed
thousandths(r) ==
    LET whole == Abs(r.n) \div r.d
        rest  == Abs(r.n) % r.d
    IN  IF whole >= 1000000 THEN 1000000000
        ELSE IF rest > 2000000 THEN whole * 1000
        ELSE whole * 1000 + (rest * 1000) \div r.d

\* a number that is not below g * x * w / 10^9 (x <= 10^8)
billions(g, x, w) == (((g \div 1000 + 1) * (x \div 1000 + 1)) \div 1000 + 1) * w + 1

\* the float test of the constraint c at the floats the library returns for
\* the system A comes out as is_satisfied does at the exact solution
\* (x1, x2).  own: c is one of the two constraints of the system.  Either
\* the rounding is below the tolerance and the exact left side is not
\* within two tolerances beyond the bound, or the rounding (at most
\* 10^-5 * billions) is below the distance of the exact left side from b
\* by more than a thousandth.
test_decided(A, c, own, x1, x2) ==
    LET g == IF own THEN largest(A) ELSE condition(A)
        w == IF own THEN 1 ELSE Abs(c.a1) + Abs(c.a2)
        x == IF ceil_abs(x1) > ceil_abs(x2) THEN ceil_abs(x1) ELSE ceil_abs(x2)
        diff == Norm(RatSub(left_side(c, x1, x2), RatInt(c.b)))
        beyond == IF c.constraint_type = LESS_EQUAL THEN diff
                  ELSE IF c.constraint_type = EQUAL THEN RatAbs(diff)
                  ELSE RatNeg(diff)
    IN  \/ /\ within_safe(g, x, w, Abs(c.b))
           /\ beyond.n <= 0 \/ ~LeqEps([n |-> beyond.n, d |-> 2 * beyond.d])
        \/ /\ x <= 100000000
           /\ thousandths(diff) - 1 > billions(g, x, w) \div 100 + 1

\* the test is_feasible(x1, x2) of find_corner_points on the floats returned
\* for the constraints at the positions i and j comes out as on the exact
\* solution (x1, x2): the solution is computed exactly, or a constraint is
\* violated and its test decided, or the tests of all constraints are
\* decided
feasibility_decided(p, i, j, x1, x2) ==
    /\ ~undetermined(x1, x2)
    /\ LET A == array_A(p.constraints[i + 1], p.constraints[j + 1])
       IN  \/ solved_exactly(A)
           \/ \E k \in 1..Len(p.constraints) :
                  /\ test_decided(A, p.constraints[k], k \in {i + 1, j + 1}, x1, x2)
                  /\ ~is_satisfied(p.constraints[k], x1, x2)
           \/ \A k \in 1..Len(p.constraints) :
                  test_decided(A, p.constraints[k], k \in {i + 1, j + 1}, x1, x2)

\* Mutation of point_accepted: only the two intersected constraints are tested
point_accepted_pair_only(p, i, j, x1, x2) ==
    /\ is_satisfied(p.constraints[i + 1], x1, x2)
    /\ is_satisfied(p.constraints[j + 1], x1, x2)

\* if self.is_feasible(x1, x2): the test that admits the point returned for
\* the constraints at positions i and j.  The floats are tested; the test
\* comes out as on the exact solution when that decides it, and as the
\* build has it otherwise.
point_accepted(p, i, j, x1, x2) ==
    IF feasibility_decided(p, i, j, x1, x2) THEN is_feasible(p, x1, x2)
    ELSE (~undetermined(x1, x2) /\ is_feasible(p, x1, x2))
             # (<<p.constraints, i, j>> \in numpy.flipped)

\* Mutation of append_point: a point already found is not added again
append_point_dedup(acc, x1, x2, i, j) ==
    IF \E k \in 1..Len(acc) : acc[k][1] = x1 /\ acc[k][2] = x2
        THEN acc
        ELSE Append(acc, <<x1, x2, <<i, j>>>>)

\* corner_points.append((x1, x2, [i, j]))
append_point(acc, x1, x2, i, j) == Append(acc, <<x1, x2, <<i, j>>>>)

\* the two nested loops of find_corner_points, from the pair (i, j) on;
\* i and j are the 0-based positions the code stores in the result
RECURSIVE corner_loop(_, _, _, _)
corner_loop(p, i, j, acc) ==
    LET n == Len(p.constraints)
    IN  IF i >= n THEN acc
        ELSE IF j >= n THEN corner_loop(p, i + 1, i + 2, acc)
        ELSE LET constr1 == p.constraints[i + 1]
                 constr2 == p.constraints[j + 1]
             IN  IF det_below_tolerance(constr1, constr2)
                     THEN corner_loop(p, i, j + 1, acc)     \* continue
                 ELSE LET s == solve(array_A(constr1, constr2),
                                     array_b(constr1, constr2))
                      IN  IF s.singular
                              THEN corner_loop(p, i, j + 1, acc)  \* except LinAlgError
                          ELSE IF point_accepted(p, i, j, s.x1, s.x2)
                              THEN corner_loop(p, i, j + 1,
                                               append_point(acc, s.x1, s.x2, i, j))
                              ELSE corner_loop(p, i, j + 1, acc)

\* Mutation of find_corner_points: the result is added to the cache it finds
find_corner_points_extending(p) ==
    LET found == corner_loop(p, 0, 1, <<>>)
    IN  [lp |-> [p EXCEPT !.corner_points = @ \o found], val |-> found]

\* LPProblem.find_corner_points: the problem after the call and the value returned
find_corner_points(p) ==
    LET found == corner_loop(p, 0, 1, <<>>)
    IN  [lp |-> [p EXCEPT !.corner_points = found], val |-> found]


---------------------------------------------------------------------------
(* Calculator: holds a reference to the problem, so every operation takes   *)
(* the problem as it is at the call and yields the problem after it.        *)

\* Optional results
None    == [none |-> TRUE]
Some(v) == [none |-> FALSE, val |-> v]

\* a corner point whose coordinates may be rounded: the system of the two
\* constraints it names is not solved exactly.  (The positions of a stale
\* cache may name no constraint of the list any more; find_corner_points
\* never returns such an entry.)
rounded(p, point) ==
    /\ point[3][2] + 1 <= Len(p.constraints)
    /\ ~solved_exactly(array_A(p.constraints[point[3][1] + 1],
                               p.constraints[point[3][2] + 1]))

\* objective_value at a point that may be rounded may be rounded as well,
\* unless both coefficients are 0: then both products and their sum are 0.0
key_rounded(p, point) == (p.c1 # 0 \/ p.c2 # 0) /\ rounded(p, point)

\* the exact numbers say nothing of the key of the point: a coordinate is
\* undetermined, or the rounding of the key may reach the tolerance
key_open(p, point) ==
    /\ p.c1 # 0 \/ p.c2 # 0
    /\ \/ undetermined(point[1], point[2])
       \/ /\ rounded(p, point)
          /\ ~within_safe(condition(array_A(p.constraints[point[3][1] + 1],
                                            p.constraints[point[3][2] + 1])),
                          IF ceil_abs(point[1]) > ceil_abs(point[2])
                              THEN ceil_abs(point[1]) ELSE ceil_abs(point[2]),
                          Abs(p.c1) + Abs(p.c2), 0)

\* the exact keys of the two points differ by no more than two tolerances,
\* and one of them is rounded: the roundings may reverse their order
close(p, point_a, point_b) ==
    /\ ~key_open(p, point_a)
    /\ ~key_open(p, point_b)
    /\ key_rounded(p, point_a) \/ key_rounded(p, point_b)
    /\ LET gap == RatAbs(RatSub(objective_value(p, point_a[1], point_a[2]),
                                objective_value(p, point_b[1], point_b[2])))
       IN  gap.n # 0 /\ LeqEps([n |-> gap.n, d |-> 2 * gap.d])

\* the points of the sequence at which objective_value is largest, among
\* those whose keys the exact numbers give
is_maximal(p, points, k) ==
    /\ ~key_open(p, points[k])
    /\ \A m \in 1..Len(points) :
           ~key_open(p, points[m]) =>
               RatLeq(objective_value(p, points[m][1], points[m][2]),
                      objective_value(p, points[k][1], points[k][2]))

\* the system of equations a corner point is the solution of
system(p, point) ==
    <<p.constraints[point[3][1] + 1], p.constraints[point[3][2] + 1]>>

\* The keys max compares are floats.  Two keys whose exact values differ by
\* more than their roundings compare as the exact values do.  Two keys whose
\* exact values are equal or close, or of which one is open, compare as
\* their rounding errors do, and the order of the errors depends on the
\* build of the library: err gives every point of the sequence the rank of
\* the error of its key, 0 for a key computed exactly, and Roundings is the
\* set of the rankings that can occur.  The same system is solved to the
\* same floats wherever it occurs in the sequence.  Only the errors of the
\* largest keys, of the open keys and of the close keys decide a comparison
\* max acts on; the others are ranked 0.
Roundings(p, points) ==
    LET uncertain == {k \in 1..Len(points) :
                         \/ key_open(p, points[k])
                         \/ is_maximal(p, points, k) /\ key_rounded(p, points[k])
                         \/ \E other \in 1..Len(points) : close(p, points[k], points[other])}
        systems == {system(p, points[k]) : k \in uncertain}
        m == Cardinality(systems)
    IN  {[k \in 1..Len(points) |->
             IF k \in uncertain THEN e[system(p, points[k])] ELSE 0] :
            e \in [systems -> (-m)..m]}

\* key(points[a]) < key(points[b]) on the floats ranked by err
key_less(p, points, err, a, b) ==
    LET key_a == objective_value(p, points[a][1], points[a][2])
        key_b == objective_value(p, points[b][1], points[b][2])
    IN  IF key_open(p, points[a]) \/ key_open(p, points[b])
               \/ close(p, points[a], points[b])
            THEN err[a] < err[b]
        ELSE \/ RatLess(key_a, key_b)
             \/ RatLeq(key_a, key_b) /\ RatLeq(key_b, key_a) /\ err[a] < err[b]

\* Mutation of max_loop: a later item with an equal key replaces the held one
RECURSIVE max_loop_last(_, _, _, _, _)
max_loop_last(p, points, err, k, best) ==
    IF k > Len(points) THEN best
    ELSE IF ~key_less(p, points, err, k, best)
        THEN max_loop_last(p, points, err, k + 1, k)
        ELSE max_loop_last(p, points, err, k + 1, best)

\* max(corner_points, key = objective_value) from position k on: Python's max
\* keeps the item it holds (here its position, best) unless a later one has
\* a strictly greater key
RECURSIVE max_loop(_, _, _, _, _)
max_loop(p, points, err, k, best) ==
    IF k > Len(points) THEN best
    ELSE IF key_less(p, points, err, best, k)
        THEN max_loop(p, points, err, k + 1, k)
        ELSE max_loop(p, points, err, k + 1, best)

\* the solution tuple for a non-empty sequence of corner points whose keys
\* are rounded as err says
best_solution(p, points, err) ==
    LET best_point == points[max_loop(p, points, err, 2, 1)]
        x1 == best_point[1]
        x2 == best_point[2]
        indices == best_point[3]
        value == objective_value(p, x1, x2)
    IN  <<x1, x2, value, indices>>

\* the outcomes of find_optimal_solution on the corner points r.val: one for
\* every ranking of the rounding errors, a single one when the largest keys
\* are computed exactly
Outcomes(r) ==
    IF r.val = <<>>
        THEN {[lp |-> r.lp, val |-> None, err |-> <<>>]}
        ELSE {[lp |-> r.lp, val |-> Some(best_solution(r.lp, r.val, err)),
               err |-> err] : err \in Roundings(r.lp, r.val)}

\* Mutation of find_optimal_solution: emptiness is tested on the cache the
\* call finds instead of on the result of find_corner_points
find_optimal_solution_stale_test(p) ==
    IF p.corner_points = <<>>
        THEN {[lp |-> find_corner_points(p).lp, val |-> None, err |-> <<>>]}
        ELSE Outcomes(find_corner_points(p))

\* Mutation of find_optimal_solution: a non-empty cache is reused, as
\* LPVisualizer.draw_corner_points does
find_optimal_solution_cached(p) ==
    IF p.corner_points # <<>>
        THEN Outcomes([lp |-> p, val |-> p.corner_points])
        ELSE Outcomes(find_corner_points(p))

\* Calculator.find_optimal_solution: the set of its outcomes, each the
\* problem after the call, the value returned and the ranking of the
\* rounding errors under which it is returned
find_optimal_solution(p) == Outcomes(find_corner_points(p))

\* np.linspace(0, 10, 20)[k] = k * 10 / 19 for k = 0 .. 19
GridCount == 20
GridStop  == 10
linspace(k) == Rat(k * GridStop, GridCount - 1)

\* the inner loop over x2 for the sample row k1, from the sample k2 on
\* Mutation of grid_row: the grid is scanned with x2 in the outer loop
RECURSIVE grid_row_x2_outer(_, _, _)
grid_row_x2_outer(p, k1, k2) ==
    IF k2 >= GridCount THEN None
    ELSE IF is_feasible(p, linspace(k2), linspace(k1))
        THEN Some(<<linspace(k2), linspace(k1)>>)
        ELSE grid_row_x2_outer(p, k1, k2 + 1)

RECURSIVE grid_row(_, _, _)
grid_row(p, k1, k2) ==
    IF k2 >= GridCount THEN None
    ELSE IF is_feasible(p, linspace(k1), linspace(k2))
        THEN Some(<<linspace(k1), linspace(k2)>>)
        ELSE grid_row(p, k1, k2 + 1)

\* the outer loop over x1, from the row k1 on
RECURSIVE grid_loop(_, _)
grid_loop(p, k1) ==
    IF k1 >= GridCount THEN None
    ELSE LET found == grid_row(p, k1, 0)
         IN  IF found.none THEN grid_loop(p, k1 + 1) ELSE found

\* Calculator.suggest_initial_point
suggest_initial_point(p) ==
    LET r == find_corner_points(p)
    IN  IF r.val # <<>>
            THEN [lp |-> r.lp, val |-> Some(<<r.val[1][1], r.val[1][2]>>)]
            ELSE [lp |-> r.lp, val |-> grid_loop(r.lp, 0)]

\* the four flags of is_bounded before its loop
NoBounds ==
    [has_x1_lower_bound |-> FALSE, has_x1_upper_bound |-> FALSE,
     has_x2_lower_bound |-> FALSE, has_x2_upper_bound |-> FALSE]

\* Mutation of bound_x1: the sign of a1 is not looked at
bound_x1_unsigned(f, c) ==
    IF ~LessEps(RatInt(Abs(c.a2))) THEN f
    ELSE IF c.a1 # 0
        THEN IF c.constraint_type = LESS_EQUAL
                 THEN [f EXCEPT !.has_x1_upper_bound = TRUE]
             ELSE IF c.constraint_type = GREATER_EQUAL
                 THEN [f EXCEPT !.has_x1_lower_bound = TRUE]
             ELSE f
    ELSE f

\* is_bounded, first if of the loop body: the constraint bounds x1
bound_x1(f, c) ==
    IF ~LessEps(RatInt(Abs(c.a2))) THEN f          \* abs(a2) < 1e-10 is false
    ELSE IF c.a1 > 0
        THEN IF c.constraint_type = LESS_EQUAL
                 THEN [f EXCEPT !.has_x1_upper_bound = TRUE]
             ELSE IF c.constraint_type = GREATER_EQUAL
                 THEN [f EXCEPT !.has_x1_lower_bound = TRUE]
             ELSE f
    ELSE IF c.a1 < 0
        THEN IF c.constraint_type = LESS_EQUAL
                 THEN [f EXCEPT !.has_x1_lower_bound = TRUE]
             ELSE IF c.constraint_type = GREATER_EQUAL
                 THEN [f EXCEPT !.has_x1_upper_bound = TRUE]
             ELSE f
    ELSE f

\* Mutation of bound_x2: an equation on x2 bounds it on both sides
bound_x2_equation(f, c) ==
    IF ~LessEps(RatInt(Abs(c.a1))) THEN f
    ELSE IF c.a2 # 0 /\ c.constraint_type = EQUAL
        THEN [f EXCEPT !.has_x2_upper_bound = TRUE, !.has_x2_lower_bound = TRUE]
    ELSE IF c.a2 > 0
        THEN IF c.constraint_type = LESS_EQUAL
                 THEN [f EXCEPT !.has_x2_upper_bound = TRUE]
             ELSE IF c.constraint_type = GREATER_EQUAL
                 THEN [f EXCEPT !.has_x2_lower_bound = TRUE]
             ELSE f
    ELSE IF c.a2 < 0
        THEN IF c.constraint_type = LESS_EQUAL
                 THEN [f EXCEPT !.has_x2_lower_bound = TRUE]
             ELSE IF c.constraint_type = GREATER_EQUAL
                 THEN [f EXCEPT !.has_x2_upper_bound = TRUE]
             ELSE f
    ELSE f

\* is_bounded, second if of the loop body: the constraint bounds x2
bound_x2(f, c) ==
    IF ~LessEps(RatInt(Abs(c.a1))) THEN f          \* abs(a1) < 1e-10 is false
    ELSE IF c.a2 > 0
        THEN IF c.constraint_type = LESS_EQUAL
                 THEN [f EXCEPT !.has_x2_upper_bound = TRUE]
             ELSE IF c.constraint_type = GREATER_EQUAL
                 THEN [f EXCEPT !.has_x2_lower_bound = TRUE]
             ELSE f
    ELSE IF c.a2 < 0
        THEN IF c.constraint_type = LESS_EQUAL
                 THEN [f EXCEPT !.has_x2_lower_bound = TRUE]
             ELSE IF c.constraint_type = GREATER_EQUAL
                 THEN [f EXCEPT !.has_x2_upper_bound = TRUE]
             ELSE f
    ELSE f

\* the loop of is_bounded over the constraints from position k on
RECURSIVE bounds_loop(_, _, _)
bounds_loop(p, k, f) ==
    IF k > Len(p.constraints) THEN f
    ELSE bounds_loop(p, k + 1, bound_x2(bound_x1(f, p.constraints[k]), p.constraints[k]))

\* Calculator.is_bounded
is_bounded(p) ==
    LET f == bounds_loop(p, 1, NoBounds)
    IN  /\ f.has_x1_lower_bound
        /\ f.has_x1_upper_bound
        /\ f.has_x2_lower_bound
        /\ f.has_x2_upper_bound

---------------------------------------------------------------------------
(***************************************************************************)
(* MainWindow with its widgets (src/ui/main_window.py, input_widgets.py,  *)
(* graph_widget.py, visual_module.py).  The window is the record           *)
(*   current_point, graph_point    the point and the visualizer's copy     *)
(*   coefficients                  the two spin boxes of the objective     *)
(*   rows                          the rows (a1, a2, sign, b) of the       *)
(*                                 constraints table                       *)
(*   lp_problem, calculator_lp_problem, visualizer_lp_problem,             *)
(*   widget_lp_problem             the problem objects referred to, by     *)
(*                                 identity                                *)
(*   corner_table                  the (x1, x2, value) data of the rows    *)
(*                                 of the corner-points table              *)
(*   graph_corner_points           the points draw_corner_points plotted   *)
(*   graph_constraints             the constraints of the problem drawn,   *)
(*                                 as they were at that draw               *)
(*   grid                          the visualizer's config['grid']         *)
(* The problem held in c1 .. corner_points is the object self.lp_problem.  *)
(* A handler is an operator from the window and the problem to the record  *)
(* [w, lp, computed_on] of both after it and of the history of the calls   *)
(* of find_corner_points it has made.  Texts of labels and cells, the      *)
(* lines and the shaded region of the graph are not kept.                  *)
(***************************************************************************)

NoObject == -1

\* history of find_corner_points: whether it has run, the constraint list it
\* last ran on, and whether that run changed the cache it found
NeverComputed == [called |-> FALSE, on |-> <<>>, replaced |-> FALSE]

\* the history of the call of find_corner_points on the problem p that has
\* left r
ComputedOn(p, r) ==
    [called |-> TRUE, on |-> p.constraints,
     replaced |-> (p.corner_points # <<>> /\ p.corner_points # r.lp.corner_points)]

\* a handler that returns at once: the window and the problem are kept
NothingRun(w, p) == [w |-> w, lp |-> p, computed_on |-> NeverComputed]

\* the step b of a handler has run after the step a: the history is that of
\* the last call of find_corner_points of the two
After(a, b) ==
    [b EXCEPT !.computed_on = IF @.called THEN @ ELSE a.computed_on]

\* the one value of a singleton set: the steps of a handler are chained with
\* it, each step being given the value the step before it has left
The(S) == CHOOSE value_left \in S : TRUE

\* QDoubleSpinBox.setValue for a whole number: the range is -1000 .. 1000
setValue(v) == IF v > 1000 THEN 1000 ELSE IF v < -1000 THEN -1000 ELSE v

\* a row of the constraints table: three spin boxes and the sign combo box
Row(a1, a2, sign_text, b) == [a1 |-> a1, a2 |-> a2, sign_text |-> sign_text, b |-> b]

\* ConstraintsTableWidget.add_constraint: a row of ones with the first sign;
\* no signal is connected yet when the values are set
DefaultRow == Row(setValue(1), setValue(1), GlyphLE, setValue(1))
table_add_constraint(w) == [w EXCEPT !.rows = Append(@, DefaultRow)]

\* ConstraintsTableWidget.get_constraints, one row
row_constraint(row) ==
    LET constraint_type ==
            IF row.sign_text = GlyphLE THEN LESS_EQUAL
            ELSE IF row.sign_text = GlyphEQ THEN EQUAL
            ELSE GREATER_EQUAL
    IN  <<row.a1, row.a2, row.b, constraint_type>>

get_constraints(w) == [k \in 1..Len(w.rows) |-> row_constraint(w.rows[k])]

\* ConstraintsTableWidget.set_constraints: the table is emptied and filled
set_constraints(w, constraints_data) ==
    [w EXCEPT !.rows =
        [k \in 1..Len(constraints_data) |->
            LET d == constraints_data[k]
            IN  Row(setValue(d[1]), setValue(d[2]),
                    IF d[4] = LESS_EQUAL THEN GlyphLE
                    ELSE IF d[4] = EQUAL THEN GlyphEQ
                    ELSE GlyphGE,
                    setValue(d[3]))]]

\* LPVisualizer.draw_corner_points, as called by draw(), on the problem p the
\* visualizer refers to: a non-empty cache is plotted as it is
draw_corner_points(w, p) ==
    IF p.corner_points # <<>>
        THEN [w  |-> [w EXCEPT !.graph_corner_points = p.corner_points,
                               !.graph_constraints = p.constraints],
              lp |-> p,
              computed_on |-> NeverComputed]
        ELSE The({[w  |-> [w EXCEPT !.graph_corner_points = r.val,
                                    !.graph_constraints = p.constraints],
                   lp |-> r.lp,
                   computed_on |-> ComputedOn(p, r)] :
                     r \in {find_corner_points(p)}})

\* GraphWidget.set_problem
graph_set_problem(w, p) ==
    draw_corner_points([w EXCEPT !.visualizer_lp_problem = w.lp_problem], p)

\* GraphWidget.set_current_point
graph_set_current_point(w, p, x1, x2) ==
    draw_corner_points([w EXCEPT !.graph_point = <<x1, x2>>], p)

\* GraphWidget.update_config
graph_update_config(w, p, grid) ==
    draw_corner_points([w EXCEPT !.grid = grid], p)

\* CornerPointsWidget.update_corner_points
update_corner_points(w, p) ==
    The({[w  |-> [w EXCEPT !.corner_table =
                     [k \in 1..Len(r.val) |->
                         <<r.val[k][1], r.val[k][2],
                           objective_value(r.lp, r.val[k][1], r.val[k][2])>>]],
          lp |-> r.lp,
          computed_on |-> ComputedOn(p, r)] :
            r \in {find_corner_points(p)}})

\* CornerPointsWidget.set_problem
widget_set_problem(w, p) ==
    update_corner_points([w EXCEPT !.widget_lp_problem = w.lp_problem], p)

\* the loop of update_lp_problem that refills the constraint list
RECURSIVE add_rows(_, _, _)
add_rows(p, constraints_data, k) ==
    IF k > Len(constraints_data) THEN p
    ELSE add_rows(add_constraint(p, constraints_data[k][1], constraints_data[k][2],
                                 constraints_data[k][3], constraints_data[k][4]),
                  constraints_data, k + 1)

\* Mutation of update_lp_problem: the corner-points widget is not told
update_lp_problem_graph_only(w, p) ==
    The({[w  |-> [g.w EXCEPT !.calculator_lp_problem = w.lp_problem,
                             !.widget_lp_problem = w.lp_problem],
          lp |-> g.lp,
          computed_on |-> g.computed_on] :
            g \in {graph_set_problem(w,
                       add_rows([p EXCEPT !.c1 = w.coefficients[1],
                                          !.c2 = w.coefficients[2],
                                          !.constraints = <<>>],
                                get_constraints(w), 1))}})

\* MainWindow.update_lp_problem
update_lp_problem(w, p) ==
    The({[w  |-> [t.w EXCEPT !.calculator_lp_problem = w.lp_problem],
          lp |-> t.lp,
          computed_on |-> t.computed_on] :
            t \in {After(g, widget_set_problem(g.w, g.lp)) :
                      g \in {graph_set_problem(w,
                                 add_rows([p EXCEPT !.c1 = w.coefficients[1],
                                                    !.c2 = w.coefficients[2],
                                                    !.constraints = <<>>],
                                          get_constraints(w), 1))}}})

\* one spin box of the objective is given a value: valueChanged is emitted
\* when the value changes, and the signal ends in update_lp_problem
set_coefficient(w, p, k, v) ==
    IF setValue(v) = w.coefficients[k] THEN NothingRun(w, p)
    ELSE update_lp_problem([w EXCEPT !.coefficients[k] = setValue(v)], p)

\* ObjectiveFunctionWidget.set_coefficients
set_coefficients(w, p, v1, v2) ==
    The({After(first, set_coefficient(first.w, first.lp, 2, v2)) :
            first \in {set_coefficient(w, p, 1, v1)}})

\* MainWindow.on_point_selected
on_point_selected(w, p, x1, x2) ==
    graph_set_current_point([w EXCEPT !.current_point = <<x1, x2>>], p, x1, x2)

\* CornerPointsWidget.on_select_requested with the row of the corner table
\* that is selected: the signal pointSelected ends in on_point_selected
on_select_requested(w, p, row) ==
    on_point_selected(w, p, w.corner_table[row + 1][1], w.corner_table[row + 1][2])

\* MainWindow.on_toggle_grid
on_toggle_grid(w, p, checked) == graph_update_config(w, p, checked)

\* MainWindow.on_new_problem, answered Yes: the new objects are numbered on
on_new_problem(w, p) ==
    The({After(u, on_point_selected(u.w, u.lp, RatInt(0), RatInt(0))) :
            u \in {After(s, update_lp_problem(
                       table_add_constraint(set_constraints(s.w, <<>>)), s.lp)) :
                      s \in {set_coefficients(
                                 [w EXCEPT !.lp_problem = w.lp_problem + 1,
                                           !.calculator_lp_problem = w.lp_problem + 1],
                                 LPProblem(0, 0), 1, 1)}}})

\* MainWindow.on_open_problem with a file that holds the dictionary data
on_open_problem(w, p, data) ==
    The({After(u, on_point_selected(u.w, u.lp, RatInt(0), RatInt(0))) :
            u \in {After(s, update_lp_problem(
                       set_constraints(s.w,
                           [k \in 1..Len(s.lp.constraints) |->
                               <<s.lp.constraints[k].a1, s.lp.constraints[k].a2,
                                 s.lp.constraints[k].b,
                                 s.lp.constraints[k].constraint_type>>]),
                       s.lp)) :
                      s \in {set_coefficients(
                                 [w EXCEPT !.lp_problem = w.lp_problem + 1,
                                           !.calculator_lp_problem = w.lp_problem + 1],
                                 problem, problem.c1, problem.c2) :
                                problem \in {from_dict(data)}}}})

\* MainWindow.__init__: the problem and the calculator, init_ui with its
\* widgets and its closing update_lp_problem, then the current point
NewWindow ==
    LET widgets ==
            [current_point |-> <<>>, graph_point |-> <<>>,
             coefficients |-> <<setValue(1), setValue(1)>>,
             rows |-> <<DefaultRow>>,
             lp_problem |-> 0, calculator_lp_problem |-> 0,
             visualizer_lp_problem |-> NoObject, widget_lp_problem |-> NoObject,
             corner_table |-> <<>>,
             graph_corner_points |-> <<>>, graph_constraints |-> <<>>,
             grid |-> TRUE]
    IN  The({After(u, on_point_selected(u.w, u.lp, RatInt(0), RatInt(0))) :
                u \in {update_lp_problem(widgets, LPProblem(0, 0))}})

\* Mutation of on_move_requested: the new point is taken without the test
on_move_requested_unchecked(w, p, step_size, anti_gradient) ==
    LET new == move_in_gradient_direction(p, w.current_point[1], w.current_point[2],
                                          step_size, anti_gradient)
    IN  graph_set_current_point([w EXCEPT !.current_point = new], p, new[1], new[2])

\* MainWindow.on_move_requested.  current_point is always a pair, which is
\* never falsy, so the early return is not taken.
on_move_requested(w, p, step_size, anti_gradient) ==
    LET new == move_in_gradient_direction(p, w.current_point[1], w.current_point[2],
                                          step_size, anti_gradient)
    IN  IF is_feasible(p, new[1], new[2])
            THEN graph_set_current_point([w EXCEPT !.current_point = new],
                                         p, new[1], new[2])
            ELSE NothingRun(w, p)                    \* QMessageBox.warning

\* MainWindow.keyPressEvent
Key_Up   == "Key_Up"
Key_Down == "Key_Down"
keyPressEvent(w, p, key) ==
    IF key = Key_Up THEN on_move_requested(w, p, Rat(1, 2), TRUE)
    ELSE IF key = Key_Down THEN on_move_requested(w, p, Rat(1, 2), FALSE)
    ELSE NothingRun(w, p)

\* MainWindow.on_find_optimal: find_optimal_solution runs find_corner_points;
\* one outcome for every outcome of find_optimal_solution
on_find_optimal(w, p) ==
    {IF r.val.none THEN r.left                         \* QMessageBox.warning
     ELSE After(r.left,
                on_point_selected(w, r.left.lp, r.val.val[1], r.val.val[2])) :
        r \in {[val  |-> o.val,
                left |-> [w |-> w, lp |-> o.lp,
                          computed_on |-> ComputedOn(p, o)]] :
                  o \in find_optimal_solution(p)}}

---------------------------------------------------------------------------
(* InputParser (src/modules/input_module.py).  Texts are strings over the   *)
(* digits, the signs + and -, the letters x and z, the characters * < > =,  *)
(* the space and the line feed.  On such strings float accepts exactly an    *)
(* optional sign followed by digits, surrounded by white space.              *)

\* str.strip() on the left and on the right
IsSpace(ch) == ch \in {" ", "\n"}
RECURSIVE lstrip(_)
lstrip(s) ==
    IF s = "" THEN s
    ELSE IF IsSpace(Head(s)) THEN lstrip(Tail(s)) ELSE s
RECURSIVE rstrip(_)
rstrip(s) ==
    IF s = "" THEN s
    ELSE IF IsSpace(SubSeq(s, Len(s), Len(s))) THEN rstrip(SubSeq(s, 1, Len(s) - 1)) ELSE s
strip(s) == rstrip(lstrip(s))

\* s.startswith(sub)
startswith(s, sub) == Len(sub) <= Len(s) /\ SubSeq(s, 1, Len(sub)) = sub

\* sub in s
contains(s, sub) ==
    \E i \in 1..(Len(s) - Len(sub) + 1) : SubSeq(s, i, i + Len(sub) - 1) = sub

\* s.replace(old, new), old not empty
RECURSIVE replace(_, _, _)
replace(s, old, new) ==
    IF s = "" THEN s
    ELSE IF startswith(s, old)
        THEN new \o replace(SubSeq(s, Len(old) + 1, Len(s)), old, new)
        ELSE Head(s) \o replace(Tail(s), old, new)

\* s.split(sep), sep not empty: current is the part being read
RECURSIVE split_loop(_, _, _)
split_loop(s, sep, current) ==
    IF s = "" THEN <<current>>
    ELSE IF startswith(s, sep)
        THEN <<current>> \o split_loop(SubSeq(s, Len(sep) + 1, Len(s)), sep, "")
        ELSE split_loop(Tail(s), sep, current \o Head(s))
split(s, sep) == split_loop(s, sep, "")

\* float(s): the number read, or None for ValueError
Digits == "0123456789"
digit(ch) == CHOOSE d \in 0..9 : SubSeq(Digits, d + 1, d + 1) = ch
RECURSIVE digits_value(_, _)
digits_value(s, acc) ==
    IF s = "" THEN acc ELSE digits_value(Tail(s), 10 * acc + digit(Head(s)))
float(s) ==
    LET t      == strip(s)
        signed == t # "" /\ Head(t) \in {"+", "-"}
        body   == IF signed THEN Tail(t) ELSE t
    IN  IF body = "" \/ \E i \in 1..Len(body) : ~contains(Digits, SubSeq(body, i, i))
            THEN None
        ELSE IF signed /\ Head(t) = "-" THEN Some(-digits_value(body, 0))
        ELSE Some(digits_value(body, 0))

\* parse_objective_function: the loop that cuts the text before every + and -
\* that is not its first character; i is 0-based
RECURSIVE split_terms(_, _, _, _)
split_terms(text, i, parts, current_part) ==
    IF i >= Len(text) THEN Append(parts, current_part)
    ELSE LET char == SubSeq(text, i + 1, i + 1)
         IN  IF char \in {"+", "-"} /\ i > 0
                 THEN split_terms(text, i + 1, Append(parts, current_part), char)
                 ELSE split_terms(text, i + 1, parts, current_part \o char)

\* parse_objective_function: the coefficient read from a part without its
\* variable, or None for the exception of float
coefficient(c_str) ==
    IF c_str \in {"+", ""} THEN Some(1)
    ELSE IF c_str = "-" THEN Some(-1)
    ELSE float(c_str)

\* parse_objective_function: the loop over the parts, None for an exception
RECURSIVE parts_loop(_, _, _, _)
parts_loop(parts, k, pc1, pc2) ==
    IF k > Len(parts) THEN Some(<<pc1, pc2>>)
    ELSE LET part == strip(parts[k])
         IN  IF part = "" THEN parts_loop(parts, k + 1, pc1, pc2)
             ELSE IF contains(part, "x1")
                 THEN LET c == coefficient(strip(replace(part, "x1", "")))
                      IN  IF c.none THEN None
                          ELSE parts_loop(parts, k + 1, c.val, pc2)
             ELSE IF contains(part, "x2")
                 THEN LET c == coefficient(strip(replace(part, "x2", "")))
                      IN  IF c.none THEN None
                          ELSE parts_loop(parts, k + 1, pc1, c.val)
             ELSE parts_loop(parts, k + 1, pc1, pc2)

\* InputParser.parse_objective_function
parse_objective_function(text) ==
    LET r == parts_loop(split_terms(replace(strip(text), " ", ""), 0, <<>>, ""), 1, 0, 0)
    IN  IF r.none THEN <<0, 0>> ELSE r.val

\* Mutation of parse_constraint: a line without a relation sign is read as an
\* equation with the right-hand side 0
parse_constraint_default_relation(text) ==
    LET t == strip(text)
        constraint_type ==
            IF contains(t, "<=") THEN LESS_EQUAL
            ELSE IF contains(t, ">=") THEN GREATER_EQUAL
            ELSE EQUAL
        parts ==
            IF contains(t, "<=") THEN split(t, "<=")
            ELSE IF contains(t, ">=") THEN split(t, ">=")
            ELSE IF contains(t, "=") THEN split(t, "=")
            ELSE <<t, "0">>
    IN  IF Len(parts) # 2 THEN None
        ELSE LET a == parse_objective_function(strip(parts[1]))
                 b == float(strip(parts[2]))
             IN  IF b.none THEN None
                 ELSE Some(<<a[1], a[2], b.val, constraint_type>>)

\* InputParser.parse_constraint
parse_constraint(text) ==
    LET t == strip(text)
        constraint_type ==
            IF contains(t, "<=") THEN LESS_EQUAL
            ELSE IF contains(t, ">=") THEN GREATER_EQUAL
            ELSE EQUAL
        parts ==
            IF contains(t, "<=") THEN split(t, "<=")
            ELSE IF contains(t, ">=") THEN split(t, ">=")
            ELSE split(t, "=")
    IN  IF ~contains(t, "=") THEN None
        ELSE IF Len(parts) # 2 THEN None
        ELSE LET a == parse_objective_function(strip(parts[1]))
                 b == float(strip(parts[2]))
             IN  IF b.none THEN None
                 ELSE Some(<<a[1], a[2], b.val, constraint_type>>)

\* create_problem_from_text: the loop over the lines
RECURSIVE lines_loop(_, _, _)
lines_loop(lines, k, problem) ==
    IF k > Len(lines) THEN problem
    ELSE LET line == strip(lines[k])
             constraint_data == parse_constraint(line)
         IN  IF line = "" THEN lines_loop(lines, k + 1, problem)
             ELSE IF constraint_data.none THEN lines_loop(lines, k + 1, problem)
             ELSE lines_loop(lines, k + 1,
                      add_constraint(problem, constraint_data.val[1], constraint_data.val[2],
                                     constraint_data.val[3], constraint_data.val[4]))

\* InputParser.create_problem_from_text
create_problem_from_text(objective_text, constraints_text) ==
    LET c == parse_objective_function(objective_text)
    IN  lines_loop(split(strip(constraints_text), "\n"), 1, LPProblem(c[1], c[2]))

---------------------------------------------------------------------------
(* Inputs *)

\* the constraints the operations are given: the box of the documented
\* example, a line through its vertex (4, 4) that meets x2 = 0 at x1 = 7/2,
\* and a constraint with a1 = a2 = 0
x1_le_4    == Constraint(1, 0, 4, LESS_EQUAL)
x2_le_4    == Constraint(0, 1, 4, LESS_EQUAL)
x1_ge_0    == Constraint(1, 0, 0, GREATER_EQUAL)
x2_ge_0    == Constraint(0, 1, 0, GREATER_EQUAL)
line_eq    == Constraint(8, -1, 28, EQUAL)
degenerate == Constraint(0, 0, 1, LESS_EQUAL)

ConstraintPool == {x1_le_4, x2_le_4, x1_ge_0, x2_ge_0, line_eq, degenerate}

\* the constraints add_constraint is given under Spec
AddPool == {x1_le_4, x2_ge_0, line_eq}

\* the objective coefficients (c1, c2)
ObjectivePool == {<<2, 3>>, <<0, 0>>, <<-1, 0>>}

\* the objective coefficients a problem is given under Spec
AssignPool == {<<0, 0>>, <<2, 3>>}

SeqsUpTo(S, n) == UNION {[1..m -> S] : m \in 0..n}

\* a problem constructed with (pc1, pc2) and given the constraints cs in order
RECURSIVE Build(_, _, _)
Build(pc1, pc2, cs) ==
    IF cs = <<>> THEN LPProblem(pc1, pc2)
    ELSE LET last == cs[Len(cs)]
         IN  add_constraint(Build(pc1, pc2, SubSeq(cs, 1, Len(cs) - 1)),
                            last.a1, last.a2, last.b, last.constraint_type)

---------------------------------------------------------------------------
(* The state machine *)

\* the problem object as it is in the current state
Problem ==
    [c1 |-> c1, c2 |-> c2, constraints |-> constraints,
     corner_points |-> corner_points]

\* the problem object in the next state is p
Store(p) ==
    /\ c1' = p.c1
    /\ c2' = p.c2
    /\ constraints' = p.constraints
    /\ corner_points' = p.corner_points

Ret(op, res) == [op |-> op, res |-> res]

\* the history of a call of find_corner_points on the problem of the state
Computed(r) == ComputedOn(Problem, r)

\* the history after a handler that has left h: the last call counts
History(h) == IF h.computed_on.called THEN h.computed_on ELSE computed_on

\* the problem is used on its own: no MainWindow has been constructed
NoWindow == [lp_problem |-> NoObject]

\* LPProblem(c1, c2): the state after construction
Init ==
    /\ numpy = ExactBuild
    /\ \E o \in AssignPool :
          /\ c1 = LPProblem(o[1], o[2]).c1
          /\ c2 = LPProblem(o[1], o[2]).c2
          /\ constraints = LPProblem(o[1], o[2]).constraints
          /\ corner_points = LPProblem(o[1], o[2]).corner_points
    /\ ret = Ret("init", None)
    /\ computed_on = NeverComputed
    /\ main_window = NoWindow

\* a problem constructed and given its constraints, before any query
InitPure ==
    /\ numpy = ExactBuild
    /\ \E o \in ObjectivePool, cs \in SeqsUpTo(ConstraintPool, MaxLen) :
          LET p == Build(o[1], o[2], cs)
          IN  /\ c1 = p.c1
              /\ c2 = p.c2
              /\ constraints = p.constraints
              /\ corner_points = p.corner_points
    /\ ret = Ret("init", None)
    /\ computed_on = NeverComputed
    /\ main_window = NoWindow

AddConstraint ==
    /\ UNCHANGED numpy
    /\ Len(constraints) < MaxConstraints
    /\ \E c \in AddPool :
          Store(add_constraint(Problem, c.a1, c.a2, c.b, c.constraint_type))
    /\ ret' = Ret("add_constraint", None)
    /\ UNCHANGED <<computed_on, main_window>>

RemoveConstraint ==
    /\ UNCHANGED numpy
    /\ \E index \in -1..MaxConstraints :
          Store(remove_constraint(Problem, index))
    /\ ret' = Ret("remove_constraint", None)
    /\ UNCHANGED <<computed_on, main_window>>

\* a caller assigns the public attributes c1 and c2 of the problem.  Nothing
\* else of the caller is part of this operation of the object: the window's
\* handler that makes these assignments is update_lp_problem.
SetObjective ==
    /\ UNCHANGED numpy
    /\ \E o \in AssignPool :
          Store([Problem EXCEPT !.c1 = o[1], !.c2 = o[2]])
    /\ ret' = Ret("set_objective", None)
    /\ UNCHANGED <<computed_on, main_window>>

FindCornerPoints ==
    /\ UNCHANGED numpy
    /\ \E r \in {find_corner_points(Problem)} :
        /\ Store(r.lp)
        /\ ret' = Ret("find_corner_points", Some(r.val))
        /\ computed_on' = Computed(r)
        /\ UNCHANGED main_window

FindOptimalSolution ==
    /\ UNCHANGED numpy
    /\ \E r \in find_optimal_solution(Problem) :
        /\ Store(r.lp)
        /\ ret' = [op |-> "find_optimal_solution", res |-> r.val, err |-> r.err]
        /\ computed_on' = Computed(r)
        /\ UNCHANGED main_window

SuggestInitialPoint ==
    /\ UNCHANGED numpy
    /\ \E r \in {suggest_initial_point(Problem)} :
        /\ Store(r.lp)
        /\ ret' = Ret("suggest_initial_point", r.val)
        /\ computed_on' = Computed(r)
        /\ UNCHANGED main_window

Next ==
    \/ AddConstraint
    \/ RemoveConstraint
    \/ SetObjective
    \/ FindCornerPoints
    \/ FindOptimalSolution
    \/ SuggestInitialPoint

Spec == Init /\ [][Next]_vars

NextPure ==
    \/ FindCornerPoints
    \/ FindOptimalSolution
    \/ SuggestInitialPoint

SpecPure == InitPure /\ [][NextPure]_vars

(***************************************************************************)
(* Corner points with equal objective values: lines whose intersections   *)
(* are not all computed without rounding, one of them a level line of the  *)
(* objective -x1 + 2*x2.                                                   *)
(***************************************************************************)

\* -3*x1 + 2*x2 >= -5 meets the level line in (2, 1/2): the first pivot of
\* the elimination is -3 and the solution is rounded
steep_ge    == Constraint(-3, 2, -5, GREATER_EQUAL)
\* -2*x1 + 2*x2 <= 3 and x1 >= -4 meet the level line in (-4, -5/2):
\* the pivots are powers of two
diagonal_le == Constraint(-2, 2, 3, LESS_EQUAL)
level_eq    == Constraint(-1, 2, -1, EQUAL)
x1_ge_m4    == Constraint(1, 0, -4, GREATER_EQUAL)

TiePool == {steep_ge, diagonal_le, level_eq, x1_ge_m4}

\* the objective of the level line, and the objective that is 0 everywhere
TieObjectives == {<<-1, 2>>, <<0, 0>>}

InitTies ==
    /\ numpy = ExactBuild
    /\ \E o \in TieObjectives, cs \in SeqsUpTo(TiePool, MaxTieLen) :
          LET p == Build(o[1], o[2], cs)
          IN  /\ c1 = p.c1
              /\ c2 = p.c2
              /\ constraints = p.constraints
              /\ corner_points = p.corner_points
    /\ ret = Ret("init", None)
    /\ computed_on = NeverComputed
    /\ main_window = NoWindow

NextTies ==
    \/ FindCornerPoints
    \/ FindOptimalSolution

SpecTies == InitTies /\ [][NextTies]_vars

---------------------------------------------------------------------------
(* Boundedness queries: a problem is constructed, given its constraints,    *)
(* and asked is_bounded                                                      *)

\* the constraints of the boundedness queries: every sign and kind of a
\* bound on one variable, an equation, two lines that are not parallel to
\* an axis, and a constraint with a1 = a2 = 0
neg_x1_le_0  == Constraint(-1, 0, 0, LESS_EQUAL)
neg_x1_ge_m4 == Constraint(-1, 0, -4, GREATER_EQUAL)
neg_x2_le_0  == Constraint(0, -1, 0, LESS_EQUAL)
neg_x2_ge_m4 == Constraint(0, -1, -4, GREATER_EQUAL)
x1_eq_2      == Constraint(1, 0, 2, EQUAL)
sum_le_4     == Constraint(1, 1, 4, LESS_EQUAL)
diff_ge_0    == Constraint(1, -1, 0, GREATER_EQUAL)

BoundPool ==
    {x1_le_4, x1_ge_0, neg_x1_le_0, neg_x1_ge_m4,
     x2_le_4, x2_ge_0, neg_x2_le_0, neg_x2_ge_m4,
     x1_eq_2, sum_le_4, diff_ge_0, degenerate}

\* LPProblem() given up to MaxBoundLen constraints
InitBounded ==
    /\ numpy = ExactBuild
    /\ \E cs \in SeqsUpTo(BoundPool, MaxBoundLen) :
          LET p == Build(0, 0, cs)
          IN  /\ c1 = p.c1
              /\ c2 = p.c2
              /\ constraints = p.constraints
              /\ corner_points = p.corner_points
    /\ ret = Ret("init", None)
    /\ computed_on = NeverComputed
    /\ main_window = NoWindow

IsBounded ==
    /\ UNCHANGED numpy
    /\ ret' = Ret("is_bounded", Some(is_bounded(Problem)))
    /\ UNCHANGED <<c1, c2, constraints, corner_points, computed_on, main_window>>

NextBounded == IsBounded

SpecBounded == InitBounded /\ [][NextBounded]_vars

---------------------------------------------------------------------------
(* Editing the constraint list: add_constraint and remove_constraint are    *)
(* called with recorded arguments                                            *)

\* an operation was called with the arguments args and returned res
Call(op, args, res) == [op |-> op, args |-> args, res |-> res]

\* the indices remove_constraint is given: valid, negative and too large
EditIndices == -2..(MaxEditLen + 1)

AddConstraintCall ==
    /\ UNCHANGED numpy
    /\ Len(constraints) < MaxEditLen
    /\ \E c \in AddPool :
          /\ Store(add_constraint(Problem, c.a1, c.a2, c.b, c.constraint_type))
          /\ ret' = Call("add_constraint", <<c.a1, c.a2, c.b, c.constraint_type>>, None)
    /\ UNCHANGED <<computed_on, main_window>>

RemoveConstraintCall ==
    /\ UNCHANGED numpy
    /\ \E index \in EditIndices :
          /\ Store(remove_constraint(Problem, index))
          /\ ret' = Call("remove_constraint", <<index>>, None)
    /\ UNCHANGED <<computed_on, main_window>>

NextEdit ==
    \/ AddConstraintCall
    \/ RemoveConstraintCall

SpecEdit == Init /\ [][NextEdit]_vars

---------------------------------------------------------------------------
(* Point queries: a problem is constructed, given its constraints, and its  *)
(* constraints are asked is_satisfied and the problem is_feasible            *)

\* the coordinates of the points asked about: on the boundary lines of the
\* pool, and a quarter outside of them
PointCoords == {Rat(-1, 4), RatInt(0), RatInt(4), Rat(17, 4)}

\* the tolerances is_satisfied is given: 0, 1/4 and the default 1e-10
EpsPool == {Tol(0, 1), Tol(1, 2), DefaultEps}

InitFeasible ==
    /\ numpy = ExactBuild
    /\ \E cs \in SeqsUpTo(ConstraintPool, MaxFeasLen) :
          LET p == Build(0, 0, cs)
          IN  /\ c1 = p.c1
              /\ c2 = p.c2
              /\ constraints = p.constraints
              /\ corner_points = p.corner_points
    /\ ret = Ret("init", None)
    /\ computed_on = NeverComputed
    /\ main_window = NoWindow

\* constraints[index].is_satisfied(x1, x2, eps), index 0-based
IsSatisfied ==
    /\ UNCHANGED numpy
    /\ \E index \in 0..(Len(constraints) - 1), x1 \in PointCoords, x2 \in PointCoords,
          eps \in EpsPool :
          ret' = Call("is_satisfied", <<index, x1, x2, eps>>,
                      Some(is_satisfied_eps(constraints[index + 1], x1, x2, eps)))
    /\ UNCHANGED <<c1, c2, constraints, corner_points, computed_on, main_window>>

IsFeasible ==
    /\ UNCHANGED numpy
    /\ \E x1 \in PointCoords, x2 \in PointCoords :
          ret' = Call("is_feasible", <<x1, x2>>, Some(is_feasible(Problem, x1, x2)))
    /\ UNCHANGED <<c1, c2, constraints, corner_points, computed_on, main_window>>

NextFeasible ==
    \/ IsSatisfied
    \/ IsFeasible

SpecFeasible == InitFeasible /\ [][NextFeasible]_vars

---------------------------------------------------------------------------
(* Initial points: a problem is constructed, given its constraints, and     *)
(* asked suggest_initial_point                                               *)

\* constraints whose first feasible grid sample is not the origin, or that
\* no grid sample satisfies
sum_ge_3 == Constraint(1, 2, 3, GREATER_EQUAL)
x1_le_m1 == Constraint(1, 0, -1, LESS_EQUAL)

SuggestPool == {x1_le_4, x2_ge_0, sum_ge_3, x1_le_m1}

InitSuggest ==
    /\ numpy = ExactBuild
    /\ \E cs \in SeqsUpTo(SuggestPool, MaxSuggestLen) :
          LET p == Build(0, 0, cs)
          IN  /\ c1 = p.c1
              /\ c2 = p.c2
              /\ constraints = p.constraints
              /\ corner_points = p.corner_points
    /\ ret = Ret("init", None)
    /\ computed_on = NeverComputed
    /\ main_window = NoWindow

NextSuggest == SuggestInitialPoint

SpecSuggest == InitSuggest /\ [][NextSuggest]_vars

---------------------------------------------------------------------------
(* Serialisation: a problem is converted by to_dict, and the dictionary is  *)
(* converted back by from_dict into the problem then in use                  *)

InitDict ==
    /\ numpy = ExactBuild
    /\ \E o \in ObjectivePool, cs \in SeqsUpTo(ConstraintPool, MaxDictLen) :
          LET p == Build(o[1], o[2], cs)
          IN  /\ c1 = p.c1
              /\ c2 = p.c2
              /\ constraints = p.constraints
              /\ corner_points = p.corner_points
    /\ ret = Ret("init", None)
    /\ computed_on = NeverComputed
    /\ main_window = NoWindow

ToDict ==
    /\ UNCHANGED numpy
    /\ ret' = Ret("to_dict", Some(to_dict(Problem)))
    /\ UNCHANGED <<c1, c2, constraints, corner_points, computed_on, main_window>>

\* from_dict applied to the dictionary to_dict has just returned
FromDict ==
    /\ UNCHANGED numpy
    /\ ret.op = "to_dict"
    /\ Store(from_dict(ret.res.val))
    /\ ret' = Ret("from_dict", ret.res)
    /\ computed_on' = NeverComputed
    /\ UNCHANGED main_window

NextDict ==
    \/ ToDict
    \/ FromDict
    \/ FindCornerPoints

SpecDict == InitDict /\ [][NextDict]_vars

---------------------------------------------------------------------------
(* Moves along the gradient: a problem is constructed and asked             *)
(* move_in_gradient_direction                                                *)

\* the objectives of the moves: the zero gradient and gradients of norm
\* 5, 2, 5 and 1
GradientPool == {<<0, 0>>, <<3, 4>>, <<0, -2>>, <<-4, 3>>, <<1, 0>>}

\* the steps of the moves: 0, 1/2, -1/2 and 1
StepPool == {RatInt(0), Rat(1, 2), Rat(-1, 2), RatInt(1)}

InitGradient ==
    /\ numpy = ExactBuild
    /\ \E o \in GradientPool, cs \in SeqsUpTo(ConstraintPool, MaxGradientLen) :
          LET p == Build(o[1], o[2], cs)
          IN  /\ c1 = p.c1
              /\ c2 = p.c2
              /\ constraints = p.constraints
              /\ corner_points = p.corner_points
    /\ ret = Ret("init", None)
    /\ computed_on = NeverComputed
    /\ main_window = NoWindow

MoveInGradientDirection ==
    /\ UNCHANGED numpy
    /\ \E x1 \in PointCoords, x2 \in PointCoords, step \in StepPool,
          anti_gradient \in BOOLEAN :
          ret' = Call("move_in_gradient_direction", <<x1, x2, step, anti_gradient>>,
                      Some(move_in_gradient_direction(Problem, x1, x2, step, anti_gradient)))
    /\ UNCHANGED <<c1, c2, constraints, corner_points, computed_on, main_window>>

NextGradient == MoveInGradientDirection

SpecGradient == InitGradient /\ [][NextGradient]_vars

---------------------------------------------------------------------------
(* Moving the current point: the window holds a problem that does not       *)
(* change, and receives move requests, key presses and find-optimal requests *)

\* the objectives of the window's problem: the zero gradient and gradients
\* of norm 5 and 2
MoveObjectives == {<<0, 0>>, <<3, 4>>, <<0, -2>>}

\* the constraints of the window's problem
MoveConstraints == {x1_le_4, x2_le_4, x1_ge_0, x2_ge_0, sum_ge_3}

\* the values of the step spinner: its initial value and 1
SpinnerSteps == {Rat(1, 2), RatInt(1)}

\* the keys pressed
Keys == {Key_Up, Key_Down, "Key_Left"}

\* the current point lies in the part of the plane that is explored
InRange(w) ==
    /\ RatLeq(RatAbs(w.current_point[1]), RatInt(MaxCoordinate))
    /\ RatLeq(RatAbs(w.current_point[2]), RatInt(MaxCoordinate))

\* a cell of the row k of the table is given the value v: the spin box or
\* the combo box emits its signal when the value changes, and the signal ends
\* in update_lp_problem
edit_cell(w, p, k, field, v) ==
    IF w.rows[k][field] = v THEN NothingRun(w, p)
    ELSE update_lp_problem([w EXCEPT !.rows[k][field] = v], p)

\* the cells of the row k are given the values of row: a1, a2, the sign, b
type_row(h, k, row) ==
    The({After(e3, edit_cell(e3.w, e3.lp, k, "b", row.b)) :
            e3 \in {After(e2, edit_cell(e2.w, e2.lp, k, "sign_text", row.sign_text)) :
                       e2 \in {After(e1, edit_cell(e1.w, e1.lp, k, "a2", row.a2)) :
                                  e1 \in {After(e0, edit_cell(e0.w, e0.lp, k, "a1",
                                                              row.a1)) :
                                             e0 \in {h}}}}})

\* the rows are typed one after the other; the first row is there, each
\* further row is added with the button before its cells are typed
RECURSIVE type_rows(_, _, _)
type_rows(h, rows, k) ==
    IF k > Len(rows) THEN h
    ELSE type_rows(type_row(IF k = 1 THEN h
                            ELSE [h EXCEPT !.w = table_add_constraint(@)],
                            k, rows[k]),
                   rows, k + 1)

\* the window after the constraints cs have been typed into the table of a
\* new window, row after row, and then the objective o into the spin boxes;
\* for no constraint at all the row of the new window is removed
typed(o, cs) ==
    The({After(u, set_coefficients(u.w, u.lp, o[1], o[2])) :
            u \in {IF cs = <<>>
                       THEN After(NewWindow,
                                  update_lp_problem(
                                      [NewWindow.w EXCEPT !.rows = Pop(@, 0)],
                                      NewWindow.lp))
                       ELSE type_rows(NewWindow,
                                [k \in 1..Len(cs) |->
                                    Row(setValue(cs[k].a1), setValue(cs[k].a2),
                                        IF cs[k].constraint_type = LESS_EQUAL THEN GlyphLE
                                        ELSE IF cs[k].constraint_type = EQUAL THEN GlyphEQ
                                        ELSE GlyphGE,
                                        setValue(cs[k].b))],
                                1)}})

InitMove ==
    /\ numpy = ExactBuild
    /\ \E o \in MoveObjectives, cs \in SeqsUpTo(MoveConstraints, MaxMoveLen) :
          \E h \in {typed(o, cs)} :
              /\ c1 = h.lp.c1
              /\ c2 = h.lp.c2
              /\ constraints = h.lp.constraints
              /\ corner_points = h.lp.corner_points
              /\ main_window = h.w
              /\ computed_on = h.computed_on
    /\ ret = Ret("init", None)

\* a click on one of the two buttons of the gradient control
OnMoveRequested ==
    /\ UNCHANGED numpy
    /\ \E step_size \in SpinnerSteps, anti_gradient \in BOOLEAN :
          \E h \in {on_move_requested(main_window, Problem, step_size, anti_gradient)} :
              /\ main_window' = h.w
              /\ Store(h.lp)
              /\ ret' = Call("on_move_requested", <<step_size, anti_gradient>>, None)
              /\ computed_on' = History(h)
    /\ InRange(main_window')

KeyPressEvent ==
    /\ UNCHANGED numpy
    /\ \E key \in Keys :
          \E h \in {keyPressEvent(main_window, Problem, key)} :
              /\ main_window' = h.w
              /\ Store(h.lp)
              /\ ret' = Call("keyPressEvent", <<key>>, None)
              /\ computed_on' = History(h)
    /\ InRange(main_window')

\* MainWindow.on_find_optimal: the optimum found becomes the current point
OnFindOptimal ==
    /\ UNCHANGED numpy
    /\ \E h \in on_find_optimal(main_window, Problem) :
        /\ Store(h.lp)
        /\ computed_on' = History(h)
        /\ main_window' = h.w
        /\ ret' = Call("on_find_optimal", <<>>, None)

\* the button that selects the chosen row of the corner table
OnSelectRequested ==
    /\ UNCHANGED numpy
    /\ \E row \in 0..(Len(main_window.corner_table) - 1) :
        \E h \in {on_select_requested(main_window, Problem, row)} :
            /\ Store(h.lp)
            /\ computed_on' = History(h)
            /\ main_window' = h.w
            /\ ret' = Call("on_select_requested", <<row>>, None)

NextMove ==
    \/ OnMoveRequested
    \/ KeyPressEvent
    \/ OnFindOptimal
    \/ OnSelectRequested

SpecMove == InitMove /\ [][NextMove]_vars

---------------------------------------------------------------------------
(* Parsing: an objective text and a constraints text are given to the       *)
(* operations of InputParser                                                 *)

\* objective texts: the documented form, the form without multiplication
\* signs, signs alone, a free term, and texts that cannot be read
ObjectiveTexts ==
    {"2*x1 + 3*x2", "1*x1 + 0*x2", "2x1 + 3x2", "x1 - x2", "-x1 + 3", "",
     "2x1x2", "z", " 3x2 "}

\* lines of a constraints text: the documented form with each relation sign,
\* the form without multiplication signs, blank lines, and lines without a
\* relation sign, with two relation signs and with a right-hand side that is
\* not a number
LineTexts ==
    {"1*x1 + 0*x2 <= 4", "2*x1 + 3*x2 = 6", "0*x1 + 1*x2 >= 0",
     "x1 <= 4", " x2 >= 0 ", "2x1 + 3x2 = 6",
     "", "  ", "x1 < 2", "x1 <= 2 <= 3", "x1 == 2", "x1 <= z"}

\* "\n".join(lines)
RECURSIVE join(_)
join(lines) ==
    IF lines = <<>> THEN ""
    ELSE IF Len(lines) = 1 THEN lines[1]
    ELSE lines[1] \o "\n" \o join(Tail(lines))

\* LPProblem() and the two texts at hand: an objective text and the lines of
\* a constraints text
InitParse ==
    /\ numpy = ExactBuild
    /\ c1 = LPProblem(0, 0).c1
    /\ c2 = LPProblem(0, 0).c2
    /\ constraints = LPProblem(0, 0).constraints
    /\ corner_points = LPProblem(0, 0).corner_points
    /\ \E objective_text \in ObjectiveTexts, lines \in SeqsUpTo(LineTexts, MaxLines) :
          ret = [op |-> "texts", args |-> <<objective_text, join(lines)>>,
                 res |-> None, lines |-> lines]
    /\ computed_on = NeverComputed
    /\ main_window = NoWindow

\* the objective text is parsed
ParseObjectiveFunction ==
    /\ UNCHANGED numpy
    /\ ret.op = "texts"
    /\ ret' = Call("parse_objective_function", <<ret.args[1]>>,
                   Some(parse_objective_function(ret.args[1])))
    /\ UNCHANGED <<c1, c2, constraints, corner_points, computed_on, main_window>>

\* one line of the constraints text is parsed
ParseConstraint ==
    /\ UNCHANGED numpy
    /\ ret.op = "texts"
    /\ \E k \in 1..Len(ret.lines) :
          ret' = Call("parse_constraint", <<ret.lines[k]>>, parse_constraint(ret.lines[k]))
    /\ UNCHANGED <<c1, c2, constraints, corner_points, computed_on, main_window>>

\* the problem in use becomes the one created from the two texts
CreateProblemFromText ==
    /\ UNCHANGED numpy
    /\ ret.op = "texts"
    /\ Store(create_problem_from_text(ret.args[1], ret.args[2]))
    /\ ret' = [ret EXCEPT !.op = "create_problem_from_text"]
    /\ computed_on' = NeverComputed
    /\ UNCHANGED main_window

NextParse ==
    \/ ParseObjectiveFunction
    \/ ParseConstraint
    \/ CreateProblemFromText

SpecParse == InitParse /\ [][NextParse]_vars

(***************************************************************************)
(* Boundary lines: Constraint.get_line_points is asked, for each list of   *)
(* constraints and each range of x1, for the two end points of a boundary  *)
(* line.                                                                    *)
(***************************************************************************)

\* r / k for an integer k # 0, in lowest terms
RatDivInt(r, k) == Rat(r.n, r.d * k)

\* the vertical line is returned whatever the range (mutation)
get_line_points_any_range(c, x_range) ==
    LET x1_min == x_range[1]
        x1_max == x_range[2]
        x1_points == <<x1_min, x1_max>>
    IN  IF LessEps(RatAbs(RatInt(c.a2)))
        THEN IF LessEps(RatAbs(RatInt(c.a1)))
             THEN << <<>>, <<>> >>
             ELSE LET x1_val == RatDivInt(RatInt(c.b), c.a1)
                  IN  << <<x1_val, x1_val>>, <<x1_min, x1_max>> >>
        ELSE << x1_points,
                [k \in 1..2 |->
                    RatDivInt(RatSub(RatInt(c.b), RatScale(c.a1, x1_points[k])),
                              c.a2)] >>

\* Constraint.get_line_points: the pair (x1_points, x2_points)
get_line_points(c, x_range) ==
    LET x1_min == x_range[1]
        x1_max == x_range[2]
        x1_points == <<x1_min, x1_max>>
    IN  IF LessEps(RatAbs(RatInt(c.a2)))
        THEN IF LessEps(RatAbs(RatInt(c.a1)))
             THEN << <<>>, <<>> >>
             ELSE LET x1_val == RatDivInt(RatInt(c.b), c.a1)
                  IN  IF RatLeq(x1_min, x1_val) /\ RatLeq(x1_val, x1_max)
                      THEN << <<x1_val, x1_val>>, <<x1_min, x1_max>> >>
                      ELSE << <<>>, <<>> >>
        ELSE << x1_points,
                [k \in 1..2 |->
                    RatDivInt(RatSub(RatInt(c.b), RatScale(c.a1, x1_points[k])),
                              c.a2)] >>

\* constraints with every combination of zero and non-zero coefficients
LinePool ==
    {Constraint(a1, a2, b, kind) :
        a1 \in {-2, 0, 1}, a2 \in {-1, 0, 2}, b \in {-3, 0, 4},
        kind \in {LESS_EQUAL, EQUAL, GREATER_EQUAL}}

\* ranges of x1: the visualizer's default, narrow ones and an empty one
RangePool ==
    {<<RatInt(-10), RatInt(10)>>, <<RatInt(0), RatInt(2)>>,
     <<Rat(-3, 2), Rat(-3, 2)>>, <<RatInt(2), RatInt(0)>>}

InitLine ==
    /\ numpy = ExactBuild
    /\ \E cs \in SeqsUpTo(LinePool, MaxLineLen) :
          /\ c1 = 0 /\ c2 = 0
          /\ constraints = cs
          /\ corner_points = <<>>
    /\ \E x_range \in RangePool :
          ret = Call("x_range", x_range, None)
    /\ computed_on = NeverComputed
    /\ main_window = NoWindow

GetLinePoints ==
    /\ UNCHANGED numpy
    /\ ret.op = "x_range"
    /\ \E k \in 1..Len(constraints) :
          ret' = Call("get_line_points", <<k, ret.args>>,
                      get_line_points(constraints[k], ret.args))
    /\ UNCHANGED <<c1, c2, constraints, corner_points, computed_on, main_window>>

NextLine == GetLinePoints

SpecLine == InitLine /\ [][NextLine]_vars


(***************************************************************************)
(* Bounded problems: a problem is constructed from bounds on x1 and x2,    *)
(* some of them contradictory, asked is_bounded and solved.                *)
(***************************************************************************)

x1_ge_5   == Constraint(1, 0, 5, GREATER_EQUAL)
diff_le_2 == Constraint(1, -1, 2, LESS_EQUAL)

\* the four sides of a box, a lower bound of x1 that contradicts its upper
\* bound, and two lines that cut the box
ExactPool == {x1_le_4, x1_ge_0, x2_le_4, x2_ge_0, x1_ge_5, sum_le_4, diff_le_2}

\* the lists of up to n constraints of the pool, each taken at most once
ListsUpTo(S, n) ==
    {cs \in SeqsUpTo(S, n) :
        \A k \in 1..Len(cs), m \in 1..Len(cs) : cs[k] = cs[m] => k = m}

InitExact ==
    /\ numpy = ExactBuild
    /\ \E o \in ObjectivePool, cs \in ListsUpTo(ExactPool, MaxExactLen) :
          LET p == Build(o[1], o[2], cs)
          IN  /\ c1 = p.c1
              /\ c2 = p.c2
              /\ constraints = p.constraints
              /\ corner_points = p.corner_points
    /\ ret = Ret("init", None)
    /\ computed_on = NeverComputed
    /\ main_window = NoWindow

NextExact ==
    \/ IsBounded
    \/ FindOptimalSolution

SpecExact == InitExact /\ [][NextExact]_vars

(***************************************************************************)
(* Coefficients of several hundred, as the spin boxes of the window allow  *)
(* them up to 1000: parallel and coincident lines whose determinant the    *)
(* library need not compute as 0.0, and two equations whose lines are      *)
(* nearly parallel and meet in (-920, 921), inside bounds on both          *)
(* variables.                                                              *)
(***************************************************************************)

\* 936*x1 + 897*x2 <= 936 and 816*x1 + 782*x2 <= 816 are the same line
\* 24*x1 + 23*x2 = 24; 816*x1 + 782*x2 >= 0 is parallel to it
wide_le   == Constraint(936, 897, 936, LESS_EQUAL)
wide_same == Constraint(816, 782, 816, LESS_EQUAL)
wide_zero == Constraint(816, 782, 0, GREATER_EQUAL)

\* the determinant of the two equations is -1
near_one  == Constraint(922, 921, 1, EQUAL)
near_zero == Constraint(921, 920, 0, EQUAL)

x1_ge_m1000 == Constraint(1, 0, -1000, GREATER_EQUAL)
x1_le_0     == Constraint(1, 0, 0, LESS_EQUAL)
x2_le_1000  == Constraint(0, 1, 1000, LESS_EQUAL)

WideList == <<wide_le, wide_same, wide_zero>>
NearList == <<near_one, near_zero, x1_ge_m1000, x1_le_0, x2_ge_0, x2_le_1000>>

\* the constraints of s at the positions of keep, in the order of s
RECURSIVE sublist(_, _)
sublist(s, keep) ==
    IF s = <<>> THEN <<>>
    ELSE IF Len(s) \in keep
        THEN Append(sublist(SubSeq(s, 1, Len(s) - 1), keep), s[Len(s)])
        ELSE sublist(SubSeq(s, 1, Len(s) - 1), keep)

\* the lists of at most n constraints of s, in the order of s
SubLists(s, n) ==
    {sublist(s, keep) : keep \in {K \in SUBSET (1..Len(s)) : Cardinality(K) <= n}}

\* longest constraint list with coefficients of several hundred
MaxLargeLen == 6

LargeObjectives == {<<1, 1>>, <<0, 0>>}

\* the builds of the library that differ on the computations of
\* find_corner_points for the constraint list cs: every choice of the
\* outcomes that the exact numbers do not decide.  A determinant that is
\* not below the tolerance is the product of a first pivot and of a second
\* pivot that is not 0.0.
Builds(cs) ==
    LET pairs == {pr \in (0..(Len(cs) - 1)) \X (0..(Len(cs) - 1)) : pr[1] < pr[2]}
        matrix(pr) == array_A(cs[pr[1] + 1], cs[pr[2] + 1])
        open == {pr \in pairs : /\ det(cs[pr[1] + 1], cs[pr[2] + 1]) = 0
                                /\ ~eliminated_to_zero(matrix(pr))}
        large == {pr \in open : Abs(matrix(pr)[1][1] * matrix(pr)[2][2]) > DetSafe}
        point(pr) == solve(matrix(pr), array_b(cs[pr[1] + 1], cs[pr[2] + 1]))
        tests == {pr \in pairs :
                     \/ pr \in large
                     \/ /\ det(cs[pr[1] + 1], cs[pr[2] + 1]) # 0
                        /\ ~feasibility_decided([constraints |-> cs], pr[1], pr[2],
                                                point(pr).x1, point(pr).x2)}
    IN  {[large_det |-> {matrix(pr) : pr \in L},
          nonzero_pivot |-> {matrix(pr) : pr \in P},
          flipped |-> {<<cs, pr[1], pr[2]>> : pr \in F}] :
            L \in SUBSET large, P \in SUBSET open, F \in SUBSET tests}

\* a problem with coefficients of several hundred, on a build of the library
InitLarge ==
    /\ \E o \in LargeObjectives,
          cs \in SubLists(WideList, MaxLargeLen) \cup SubLists(NearList, MaxLargeLen) :
          LET p == Build(o[1], o[2], cs)
          IN  /\ numpy \in {b \in Builds(cs) : b.large_det \subseteq b.nonzero_pivot}
              /\ c1 = p.c1
              /\ c2 = p.c2
              /\ constraints = p.constraints
              /\ corner_points = p.corner_points
    /\ ret = Ret("init", None)
    /\ computed_on = NeverComputed
    /\ main_window = NoWindow

NextLarge ==
    \/ FindCornerPoints
    \/ FindOptimalSolution

SpecLarge == InitLarge /\ [][NextLarge]_vars


(***************************************************************************)
(* MainWindow in use: the table and the spin boxes are edited, rows are    *)
(* added and removed, problems are created and opened.                     *)
(***************************************************************************)

\* the values typed into the spin boxes of the table (a1 and a2, b) and of
\* the objective
LeftValues  == {0, 1}
RightValues == {1, 4}
CoefficientValues == {1, 2}

\* the files that are opened
FilePool ==
    {to_dict(Build(2, 1, <<x1_le_4, x2_le_4>>)),
     to_dict(Build(1, 1, <<x1_le_4, Constraint(0, 1, 1, LESS_EQUAL)>>))}

InitWindow ==
    /\ numpy = ExactBuild
    /\ \E h \in {NewWindow} :
          /\ c1 = h.lp.c1
          /\ c2 = h.lp.c2
          /\ constraints = h.lp.constraints
          /\ corner_points = h.lp.corner_points
          /\ main_window = h.w
          /\ computed_on = h.computed_on
    /\ ret = Ret("init", None)

\* the handler h has run: the window and the problem are as it left them
Handled(op, args, h) ==
    \E left \in {h} :
        /\ Store(left.lp)
        /\ main_window' = left.w
        /\ ret' = Call(op, args, None)
        /\ computed_on' = History(left)

\* a spin box of the objective is given another value
OnCoefficientsChanged ==
    /\ UNCHANGED numpy
    /\ \E k \in {1}, v \in CoefficientValues :
        /\ v # main_window.coefficients[k]
        /\ Handled("on_coefficients_changed", <<>>,
                   set_coefficient(main_window, Problem, k, v))

\* a spin box of a row of the table is given another value
OnConstraintsChanged ==
    /\ UNCHANGED numpy
    /\ \E k \in 1..Len(main_window.rows) :
        \E row \in {[main_window.rows[k] EXCEPT !.a1 = v] : v \in LeftValues}
               \cup {[main_window.rows[k] EXCEPT !.a2 = v] : v \in LeftValues}
               \cup {[main_window.rows[k] EXCEPT !.b = v] : v \in RightValues} :
            /\ row # main_window.rows[k]
            /\ Handled("on_constraints_changed", <<>>,
                       update_lp_problem([main_window EXCEPT !.rows[k] = row], Problem))

\* the button that adds a row: the table grows, no signal is emitted
AddConstraintClicked ==
    /\ UNCHANGED numpy
    /\ Len(main_window.rows) < MaxRows
    /\ main_window' = table_add_constraint(main_window)
    /\ ret' = Call("add_constraint", <<>>, None)
    /\ UNCHANGED <<c1, c2, constraints, corner_points, computed_on>>

\* the button that removes the current row of the table
RemoveConstraintClicked ==
    /\ UNCHANGED numpy
    /\ \E current_row \in 0..(Len(main_window.rows) - 1) :
        Handled("remove_constraint", <<>>,
                update_lp_problem([main_window EXCEPT !.rows = Pop(@, current_row)],
                                  Problem))

OnNewProblem ==
    /\ UNCHANGED numpy
    /\ main_window.lp_problem < MaxProblems
    /\ Handled("on_new_problem", <<>>, on_new_problem(main_window, Problem))

OnOpenProblem ==
    /\ UNCHANGED numpy
    /\ main_window.lp_problem < MaxProblems
    /\ \E data \in FilePool :
          Handled("on_open_problem", <<>>, on_open_problem(main_window, Problem, data))

\* MainWindow.on_find_corner_points, and the Update button of the corner
\* table (CornerPointsWidget.on_update_requested), which does the same
OnFindCornerPoints ==
    /\ UNCHANGED numpy
    /\ Handled("on_find_corner_points", <<>>, update_corner_points(main_window, Problem))

\* the menu entry that shows and hides the grid
OnToggleGrid ==
    /\ UNCHANGED numpy
    /\ \E checked \in BOOLEAN :
        Handled("on_toggle_grid", <<>>, on_toggle_grid(main_window, Problem, checked))

NextWindow ==
    \/ OnCoefficientsChanged
    \/ OnConstraintsChanged
    \/ AddConstraintClicked
    \/ RemoveConstraintClicked
    \/ OnNewProblem
    \/ OnOpenProblem
    \/ OnFindCornerPoints
    \/ OnToggleGrid

SpecWindow == InitWindow /\ [][NextWindow]_vars


(***************************************************************************)
(* Equations and boundedness: a problem is constructed from the four sides *)
(* of a box and equations, and asked is_bounded.                           *)
(***************************************************************************)

x2_eq_3 == Constraint(0, 1, 3, EQUAL)

EquationPool == {x1_le_4, x1_ge_0, x2_le_4, x2_ge_0, x1_eq_2, x2_eq_3}

InitEquations ==
    /\ numpy = ExactBuild
    /\ \E cs \in SeqsUpTo(EquationPool, MaxEquationLen) :
          LET p == Build(0, 0, cs)
          IN  /\ c1 = p.c1
              /\ c2 = p.c2
              /\ constraints = p.constraints
              /\ corner_points = p.corner_points
    /\ ret = Ret("init", None)
    /\ computed_on = NeverComputed
    /\ main_window = NoWindow

NextEquations == IsBounded

SpecEquations == InitEquations /\ [][NextEquations]_vars


(***************************************************************************)
(* Loading: LPProblem.from_dict is given dictionaries as a file may hold   *)
(* them, with "type" entries that to_dict never writes.                    *)
(***************************************************************************)

\* the "type" entries: the three glyphs, ASCII spellings and the empty text
TypeStrings == {GlyphLE, GlyphEQ, GlyphGE, "<=", ">=", "=="}

ConstraintRecords ==
    {[a1 |-> 1, a2 |-> 0, b |-> 4, type |-> t] : t \in TypeStrings}
        \cup {[a1 |-> 0, a2 |-> 1, b |-> 0, type |-> t] : t \in TypeStrings \cup {""}}

InitLoad ==
    /\ numpy = ExactBuild
    /\ c1 = LPProblem(0, 0).c1
    /\ c2 = LPProblem(0, 0).c2
    /\ constraints = LPProblem(0, 0).constraints
    /\ corner_points = LPProblem(0, 0).corner_points
    /\ \E o \in ObjectivePool, records \in SeqsUpTo(ConstraintRecords, MaxLoadLen) :
          ret = Call("data", [c1 |-> o[1], c2 |-> o[2], constraints |-> records], None)
    /\ computed_on = NeverComputed
    /\ main_window = NoWindow

\* LPProblem.from_dict(data): the problem it returns is the one held
LoadFromDict ==
    /\ UNCHANGED numpy
    /\ ret.op = "data"
    /\ Store(from_dict(ret.args))
    /\ ret' = Call("from_dict", ret.args, None)
    /\ computed_on' = NeverComputed
    /\ UNCHANGED main_window

NextLoad == LoadFromDict

SpecLoad == InitLoad /\ [][NextLoad]_vars


---------------------------------------------------------------------------
(* Vocabulary of the properties *)

\* the pairs of 0-based positions i < j of a list of n constraints
Pairs(n) == {pr \in (0..(n - 1)) \X (0..(n - 1)) : pr[1] < pr[2]}

\* the determinant of the coefficients of two constraints
CoefficientDet(ci, cj) == ci.a1 * cj.a2 - ci.a2 * cj.a1

\* the boundary lines of ci and cj have no unique intersection
Parallel(ci, cj) == ci.a1 * cj.a2 = ci.a2 * cj.a1

\* (x1, x2) lies on the boundary line a1*x1 + a2*x2 = b of c
OnLine(c, x1, x2) ==
    c.a1 * x1.n * x2.d + c.a2 * x2.n * x1.d = c.b * x1.d * x2.d

\* the intersection of two non-parallel boundary lines, by Cramer's rule
Intersection(ci, cj) ==
    << Rat(ci.b * cj.a2 - ci.a2 * cj.b, CoefficientDet(ci, cj)),
       Rat(ci.a1 * cj.b - ci.b * cj.a1, CoefficientDet(ci, cj)) >>

\* the constraint at the 0-based position i
At(i) == constraints[i + 1]

\* the value of the objective at a point, as a fraction
Objective(x1, x2) == RatAdd(RatScale(c1, x1), RatScale(c2, x2))

\* the points the optimum is compared with
SampleRange == -1..5
SamplePoints == {<<RatInt(a), RatInt(b)>> : a \in SampleRange, b \in SampleRange}

Returned(op) == ret.op = op

---------------------------------------------------------------------------
(* C1: find_corner_points returns exactly the qualifying intersections: for  *)
(* every pair i < j with |det| >= 1e-10 the result holds the entry           *)
(* (x1, x2, [i, j]) of the unique intersection of the two boundary lines if  *)
(* and only if that point is feasible for all constraints, and it holds no   *)
(* other entry.                                                              *)
C1_ExactlyQualifyingIntersections ==
    Returned("find_corner_points") =>
        LET res == ret.res.val
            n   == Len(constraints)
            Qualifies(pr) == ~LessEps(RatInt(Abs(CoefficientDet(At(pr[1]), At(pr[2])))))
        IN  /\ \A pr \in Pairs(n) :
                  Qualifies(pr) =>
                      LET x == Intersection(At(pr[1]), At(pr[2]))
                      IN  /\ OnLine(At(pr[1]), x[1], x[2])
                          /\ OnLine(At(pr[2]), x[1], x[2])
                          /\ (\E k \in 1..Len(res) : res[k] = <<x[1], x[2], pr>>)
                                 <=> is_feasible(Problem, x[1], x[2])
                          /\ Cardinality({k \in 1..Len(res) : res[k][3] = pr}) <= 1
            /\ \A k \in 1..Len(res) :
                  \E pr \in Pairs(n) :
                      /\ Qualifies(pr)
                      /\ res[k] = << Intersection(At(pr[1]), At(pr[2]))[1],
                                     Intersection(At(pr[1]), At(pr[2]))[2], pr >>

\* find_corner_points has run on a list where one intersection is kept and
\* another is rejected by a third constraint
C1_Witness ==
    /\ Returned("find_corner_points")
    /\ ret.res.val # <<>>
    /\ \E pr \in Pairs(Len(constraints)) :
          /\ ~Parallel(At(pr[1]), At(pr[2]))
          /\ ~is_feasible(Problem, Intersection(At(pr[1]), At(pr[2]))[1],
                                   Intersection(At(pr[1]), At(pr[2]))[2])

---------------------------------------------------------------------------
(* C2: whenever find_optimal_solution returns a solution (x1, x2, value,     *)
(* indices), the point is feasible and value >= objective_value(p) for every *)
(* feasible point p.                                                         *)
C2_SolutionIsOptimum ==
    (Returned("find_optimal_solution") /\ ~ret.res.none) =>
        /\ is_feasible(Problem, ret.res.val[1], ret.res.val[2])
        /\ \A pt \in SamplePoints :
              is_feasible(Problem, pt[1], pt[2]) =>
                  RatLeq(Objective(pt[1], pt[2]), ret.res.val[3])

---------------------------------------------------------------------------
---------------------------------------------------------------------------
(* C4: find_optimal_solution returns None exactly when find_corner_points on *)
(* the current constraints returns an empty sequence, and a 4-tuple in every *)
(* other case.                                                               *)
C4_NoneIffNoCornerPoints ==
    Returned("find_optimal_solution") =>
        /\ ret.res.none <=> (find_corner_points(Problem).val = <<>>)
        /\ ~ret.res.none => Len(ret.res.val) = 4

\* None was returned for a problem with two or more constraints and a
\* non-empty cache before the call
C4_Witness ==
    /\ Returned("find_optimal_solution")
    /\ ret.res.none
    /\ Len(constraints) >= 2
    /\ computed_on.replaced

---------------------------------------------------------------------------
(* C5: for the constraints x1<=4, x2<=4, x1>=0, x2>=0 in that order and the  *)
(* objective 2*x1+3*x2, find_corner_points returns exactly four corner       *)
(* points, with the coordinates (0,0), (4,0), (4,4), (0,4) each once,        *)
(* ordered by increasing contributing pair, and find_optimal_solution        *)
(* returns the point (4,4) with the value 20.                                *)
BoxExample ==
    /\ constraints = <<x1_le_4, x2_le_4, x1_ge_0, x2_ge_0>>
    /\ c1 = 2
    /\ c2 = 3

C5_BoxExample ==
    BoxExample =>
        /\ Returned("find_corner_points") =>
              LET res == ret.res.val
              IN  /\ Len(res) = 4
                  /\ {<<res[k][1], res[k][2]>> : k \in 1..Len(res)} =
                         { <<RatInt(0), RatInt(0)>>, <<RatInt(4), RatInt(0)>>,
                           <<RatInt(4), RatInt(4)>>, <<RatInt(0), RatInt(4)>> }
                  /\ \A k \in 1..(Len(res) - 1) :
                        \/ res[k][3][1] < res[k + 1][3][1]
                        \/ /\ res[k][3][1] = res[k + 1][3][1]
                           /\ res[k][3][2] < res[k + 1][3][2]
        /\ Returned("find_optimal_solution") =>
              /\ ~ret.res.none
              /\ ret.res.val[1] = RatInt(4)
              /\ ret.res.val[2] = RatInt(4)
              /\ ret.res.val[3] = RatInt(20)

\* find_optimal_solution has run on the example
C5_Witness ==
    /\ BoxExample
    /\ Returned("find_optimal_solution")
    /\ Len(corner_points) = 4

---------------------------------------------------------------------------
(* C6: the result of find_corner_points is ordered by contributing pair      *)
(* (i, j), strictly increasing lexicographically with 0 <= i < j < n, and    *)
(* coincident points are kept: a feasible vertex through which k >= 3        *)
(* pairwise non-parallel boundary lines pass appears once for each of the    *)
(* k*(k-1)/2 pairs.                                                          *)
C6_PairOrderNoDeduplication ==
    Returned("find_corner_points") =>
        LET res == ret.res.val
            n   == Len(constraints)
        IN  /\ \A k \in 1..Len(res) :
                  /\ 0 <= res[k][3][1]
                  /\ res[k][3][1] < res[k][3][2]
                  /\ res[k][3][2] < n
            /\ \A k \in 1..(Len(res) - 1) :
                  \/ res[k][3][1] < res[k + 1][3][1]
                  \/ /\ res[k][3][1] = res[k + 1][3][1]
                     /\ res[k][3][2] < res[k + 1][3][2]
            /\ \A K \in SUBSET (0..(n - 1)) :
                  \A pr \in Pairs(n) :
                      LET x == Intersection(At(pr[1]), At(pr[2]))
                      IN  ( /\ Cardinality(K) >= 3
                            /\ pr[1] \in K
                            /\ pr[2] \in K
                            /\ \A i \in K : \A j \in K \ {i} : ~Parallel(At(i), At(j))
                            /\ \A i \in K : OnLine(At(i), x[1], x[2])
                            /\ is_feasible(Problem, x[1], x[2]) )
                          => Cardinality({k \in 1..Len(res) :
                                            /\ res[k][1] = x[1]
                                            /\ res[k][2] = x[2]
                                            /\ res[k][3][1] \in K
                                            /\ res[k][3][2] \in K})
                                 = (Cardinality(K) * (Cardinality(K) - 1)) \div 2

\* find_corner_points has returned one point under three different pairs
C6_Witness ==
    /\ Returned("find_corner_points")
    /\ \E k1, k2, k3 \in 1..Len(ret.res.val) :
          /\ k1 < k2
          /\ k2 < k3
          /\ ret.res.val[k1][1] = ret.res.val[k2][1]
          /\ ret.res.val[k1][2] = ret.res.val[k2][2]
          /\ ret.res.val[k1][1] = ret.res.val[k3][1]
          /\ ret.res.val[k1][2] = ret.res.val[k3][2]
          /\ Cardinality(UNION { {ret.res.val[k][3][1], ret.res.val[k][3][2]} :
                                    k \in {k1, k2, k3} }) = 3

---------------------------------------------------------------------------
(* C7: a pair of constraints whose coefficient determinant is zero (parallel *)
(* or coincident lines, or a pair with a constraint a1 = a2 = 0) is never    *)
(* the contributing pair of a corner point returned by find_corner_points,   *)
(* whatever the right-hand sides are.                                        *)
C7_NoParallelPair ==
    Returned("find_corner_points") =>
        \A k \in 1..Len(ret.res.val) :
            LET i == ret.res.val[k][3][1]
                j == ret.res.val[k][3][2]
            IN  /\ i \in 0..(Len(constraints) - 1)
                /\ j \in 0..(Len(constraints) - 1)
                /\ ~Parallel(At(i), At(j))


---------------------------------------------------------------------------
(* C8: find_corner_points replaces the cached corner_points by exactly the   *)
(* sequence it returns, whatever the cache held, and leaves the constraint   *)
(* list and c1, c2 as they were.                                             *)
C8_CacheReplacedFrame ==
    [][ ret'.op = "find_corner_points" =>
            /\ corner_points' = ret'.res.val
            /\ constraints' = constraints
            /\ c1' = c1
            /\ c2' = c2 ]_vars

\* find_corner_points has run on a problem whose cache held another,
\* non-empty sequence
C8_Witness ==
    /\ Returned("find_corner_points")
    /\ computed_on.replaced
    /\ corner_points # <<>>

---------------------------------------------------------------------------
(* C9: the cache is not invalidated: add_constraint, remove_constraint and   *)
(* assignments to c1, c2 leave corner_points unchanged, so the cache always  *)
(* equals the result of the most recent find_corner_points call on the       *)
(* constraint list as it was at that call, and is empty if there was none.   *)
C9_CacheNotInvalidated ==
    /\ [](corner_points =
             IF computed_on.called
                 THEN find_corner_points(Build(c1, c2, computed_on.on)).val
                 ELSE <<>>)
    /\ [][ ret'.op \in {"add_constraint", "remove_constraint", "set_objective"}
               => corner_points' = corner_points ]_vars

\* after a remove_constraint the cache names a position that no longer
\* exists and one that now holds another constraint
C9_Witness ==
    /\ Returned("remove_constraint")
    /\ computed_on.called
    /\ \E k \in 1..Len(corner_points) : corner_points[k][3][2] >= Len(constraints)
    /\ \E k \in 1..Len(corner_points) :
          /\ corner_points[k][3][1] < Len(constraints)
          /\ At(corner_points[k][3][1]) # computed_on.on[corner_points[k][3][1] + 1]

---------------------------------------------------------------------------
(* C10: Calculator results do not depend on history: find_optimal_solution   *)
(* and suggest_initial_point return what they return on a freshly            *)
(* constructed problem with the same c1, c2 and the same ordered constraints.*)
C10_ResultsIndependentOfHistory ==
    /\ Returned("find_optimal_solution") =>
          [val |-> ret.res, err |-> ret.err] \in
              {[val |-> o.val, err |-> o.err] :
                  o \in find_optimal_solution(Build(c1, c2, constraints))}
    /\ Returned("suggest_initial_point") =>
          ret.res = suggest_initial_point(Build(c1, c2, constraints)).val

\* find_optimal_solution has returned a solution on a problem whose cache
\* held the corner points of an earlier constraint list
C10_Witness ==
    /\ Returned("find_optimal_solution")
    /\ ~ret.res.none
    /\ computed_on.replaced

---------------------------------------------------------------------------
\* an integer coefficient is within 1e-10 of zero only when it is zero
NearZero(a) == a = 0
\* the reading of a bound on one variable by the sign of its coefficient
UpperBound(a, kind) ==
    \/ a > 0 /\ kind = LESS_EQUAL
    \/ a < 0 /\ kind = GREATER_EQUAL
LowerBound(a, kind) ==
    \/ a > 0 /\ kind = GREATER_EQUAL
    \/ a < 0 /\ kind = LESS_EQUAL
\* the positions of the constraints on x1 alone and on x2 alone
OnX1 == {k \in 1..Len(constraints) : NearZero(constraints[k].a2)}
OnX2 == {k \in 1..Len(constraints) : NearZero(constraints[k].a1)}

(* C11: is_bounded returns true if and only if, among the constraints with   *)
(* |a2| < 1e-10, one is a lower bound and one an upper bound on x1, and among *)
(* the constraints with |a1| < 1e-10 one is a lower and one an upper bound on *)
(* x2, where (coefficient > 0, <=) and (coefficient < 0, >=) are upper bounds *)
(* and (coefficient > 0, >=) and (coefficient < 0, <=) are lower bounds.  So  *)
(* three constraints of which two are not parallel to an axis give false, and *)
(* a box of four axis-parallel constraints, a lower and an upper bound per    *)
(* axis, gives true.                                                          *)
C11_BoundedIffAxisBounds ==
    Returned("is_bounded") =>
        /\ ret.res.val <=>
              /\ \E k \in OnX1 : LowerBound(constraints[k].a1, constraints[k].constraint_type)
              /\ \E k \in OnX1 : UpperBound(constraints[k].a1, constraints[k].constraint_type)
              /\ \E k \in OnX2 : LowerBound(constraints[k].a2, constraints[k].constraint_type)
              /\ \E k \in OnX2 : UpperBound(constraints[k].a2, constraints[k].constraint_type)
        /\ (/\ Len(constraints) = 3
            /\ Cardinality({k \in 1..3 : constraints[k].a1 # 0 /\ constraints[k].a2 # 0}) = 2)
              => ~ret.res.val
        /\ (/\ Len(constraints) = 4
            /\ \A k \in 1..4 : (constraints[k].a1 = 0) # (constraints[k].a2 = 0)
            /\ \E k \in 1..4 : constraints[k].a2 = 0
                  /\ LowerBound(constraints[k].a1, constraints[k].constraint_type)
            /\ \E k \in 1..4 : constraints[k].a2 = 0
                  /\ UpperBound(constraints[k].a1, constraints[k].constraint_type)
            /\ \E k \in 1..4 : constraints[k].a1 = 0
                  /\ LowerBound(constraints[k].a2, constraints[k].constraint_type)
            /\ \E k \in 1..4 : constraints[k].a1 = 0
                  /\ UpperBound(constraints[k].a2, constraints[k].constraint_type))
              => ret.res.val

\* is_bounded has answered true for a box whose lower bound on x1 is written
\* with a negative coefficient, and the list ends with a bound on x2
C11_Witness ==
    /\ Returned("is_bounded")
    /\ ret.res.val
    /\ Len(constraints) = 4
    /\ \E k \in 1..4 : constraints[k] = neg_x1_le_0
    /\ \A k \in 1..4 : constraints[k] # x1_ge_0
    /\ constraints[4].a1 = 0

---------------------------------------------------------------------------
(* C12: remove_constraint(index) with 0 <= index < count removes exactly the *)
(* constraint at that position, the later ones moving down by one; with any  *)
(* other index, negative or >= count, the list is left as it was and no      *)
(* error is raised.                                                          *)
C12_RemoveExactlyAtIndex ==
    [][ret'.op = "remove_constraint" =>
          LET index == ret'.args[1]
              n     == Len(constraints)
          IN  IF 0 <= index /\ index < n
                  THEN /\ Len(constraints') = n - 1
                       /\ \A k \in 0..(index - 1) : constraints'[k + 1] = constraints[k + 1]
                       /\ \A k \in index..(n - 2) : constraints'[k + 1] = constraints[k + 2]
                  ELSE constraints' = constraints]_vars

\* remove_constraint has removed the middle one of three constraints and
\* left two different ones
C12_Witness ==
    /\ Returned("remove_constraint")
    /\ Len(constraints) = 2
    /\ constraints[1] # constraints[2]
    /\ ret.args[1] = 1

---------------------------------------------------------------------------
(* C13: add_constraint appends exactly one constraint with the values given  *)
(* at the end of the list: the length grows by one, the constraints already  *)
(* there keep their positions and values, and c1, c2 are unchanged; so the    *)
(* list holds the constraints in the order of their insertion.               *)
C13_AppendAtEnd ==
    [][ret'.op = "add_constraint" =>
          LET n == Len(constraints)
          IN  /\ Len(constraints') = n + 1
              /\ constraints'[n + 1] =
                     [a1 |-> ret'.args[1], a2 |-> ret'.args[2],
                      b |-> ret'.args[3], constraint_type |-> ret'.args[4]]
              /\ \A k \in 1..n : constraints'[k] = constraints[k]
              /\ c1' = c1
              /\ c2' = c2]_vars

\* add_constraint has added a third constraint to two different ones
C13_Witness ==
    /\ Returned("add_constraint")
    /\ Len(constraints) = 3
    /\ constraints[1] # constraints[2]
    /\ constraints[3] # constraints[1]
    /\ constraints[3] = Constraint(ret.args[1], ret.args[2], ret.args[3], ret.args[4])

---------------------------------------------------------------------------
(* C14: is_feasible(x1, x2) is true if and only if is_satisfied(x1, x2) with *)
(* the default tolerance is true for every constraint of the list; for an    *)
(* empty list it is true for every point.                                    *)
C14_FeasibleIffAllSatisfied ==
    Returned("is_feasible") =>
        /\ ret.res.val <=>
              \A k \in 1..Len(constraints) :
                  is_satisfied(constraints[k], ret.args[1], ret.args[2])
        /\ constraints = <<>> => ret.res.val

\* is_feasible has answered false at a point that satisfies the first
\* constraint and not the second
C14_Witness ==
    /\ Returned("is_feasible")
    /\ ~ret.res.val
    /\ Len(constraints) = 2
    /\ is_satisfied(constraints[1], ret.args[1], ret.args[2])
    /\ ~is_satisfied(constraints[2], ret.args[1], ret.args[2])

---------------------------------------------------------------------------
\* value - b for the constraint c at (x1, x2), as the fraction num / den
ExcessNum(c, x1, x2) ==
    c.a1 * x1.n * x2.d + c.a2 * x2.n * x1.d - c.b * x1.d * x2.d
ExcessDen(x1, x2) == x1.d * x2.d

\* m / d <= eps.  For eps = 1e-10 and 0 < d < 1e10 this is m <= 0, since m
\* and d are integers.
AtMostEps(m, d, eps) ==
    IF eps = DefaultEps THEN m <= 0
    ELSE m * eps.r * eps.r <= eps.n * d

(* C15: is_satisfied(x1, x2, eps) with value = a1*x1 + a2*x2 returns, for    *)
(* <=, value <= b + eps; for =, |value - b| <= eps; for >=, value >= b - eps; *)
(* with the default eps it is the test is_feasible applies; it changes no    *)
(* state; a point exactly on the boundary line satisfies the constraint of   *)
(* each kind (eps >= 0).                                                     *)
C15_SatisfiedWithinTolerance ==
    /\ [](Returned("is_satisfied") =>
            LET c   == constraints[ret.args[1] + 1]
                m   == ExcessNum(c, ret.args[2], ret.args[3])
                d   == ExcessDen(ret.args[2], ret.args[3])
                eps == ret.args[4]
            IN  /\ c.constraint_type = LESS_EQUAL =>
                      (ret.res.val <=> AtMostEps(m, d, eps))
                /\ c.constraint_type = EQUAL =>
                      (ret.res.val <=> AtMostEps(Abs(m), d, eps))
                /\ c.constraint_type = GREATER_EQUAL =>
                      (ret.res.val <=> AtMostEps(-m, d, eps))
                /\ eps = DefaultEps =>
                      (ret.res.val <=> is_satisfied(c, ret.args[2], ret.args[3]))
                /\ m = 0 => ret.res.val)
    /\ [][ret'.op = "is_satisfied" =>
             UNCHANGED <<c1, c2, constraints, corner_points>>]_vars

\* is_satisfied has answered true for a >= constraint at a point outside the
\* half-plane by exactly the tolerance given
C15_Witness ==
    /\ Returned("is_satisfied")
    /\ ret.res.val
    /\ constraints[ret.args[1] + 1].constraint_type = GREATER_EQUAL
    /\ ExcessNum(constraints[ret.args[1] + 1], ret.args[2], ret.args[3]) < 0
    /\ ret.args[4] = Tol(1, 2)

---------------------------------------------------------------------------
\* the grid samples (as index pairs) that are feasible
FeasibleSamples ==
    {k \in (0..(GridCount - 1)) \X (0..(GridCount - 1)) :
        is_feasible(Problem, linspace(k[1]), linspace(k[2]))}

\* k comes no later than m in a scan with x1 outer and x2 inner
ScannedBefore(k, m) == k[1] < m[1] \/ (k[1] = m[1] /\ k[2] <= m[2])

(* C16: suggest_initial_point returns the coordinates of the first corner    *)
(* point when find_corner_points is non-empty; otherwise the first feasible  *)
(* sample of the 20x20 grid over [0,10]x[0,10], scanned with x1 ascending in *)
(* the outer and x2 ascending in the inner loop; None only when there is no  *)
(* corner point and no feasible sample.  Any point returned is feasible.     *)
C16_FirstCornerPointOrFirstSample ==
    Returned("suggest_initial_point") =>
        LET points == find_corner_points(Problem).val
        IN  /\ points # <<>> =>
                  ret.res = Some(<<points[1][1], points[1][2]>>)
            /\ (points = <<>> /\ FeasibleSamples # {}) =>
                  \E k \in FeasibleSamples :
                      /\ ret.res = Some(<<linspace(k[1]), linspace(k[2])>>)
                      /\ \A m \in FeasibleSamples : ScannedBefore(k, m)
            /\ ret.res.none <=> (points = <<>> /\ FeasibleSamples = {})
            /\ ~ret.res.none => is_feasible(Problem, ret.res.val[1], ret.res.val[2])

\* suggest_initial_point has returned a grid sample that is not the first
\* sample of the grid, there being no corner point
C16_Witness ==
    /\ Returned("suggest_initial_point")
    /\ ~ret.res.none
    /\ corner_points = <<>>
    /\ ret.res.val # <<linspace(0), linspace(0)>>
    /\ Len(constraints) >= 2

---------------------------------------------------------------------------
(* C17: to_dict followed by from_dict reproduces the problem: the result has *)
(* the same c1 and c2 and the same constraints (a1, a2, b, kind) in the same *)
(* order, each kind being written as its own glyph and read back from it.    *)
C17_DictRoundTrip ==
    /\ [](Returned("to_dict") =>
            LET data == ret.res.val
            IN  /\ data.c1 = c1
                /\ data.c2 = c2
                /\ Len(data.constraints) = Len(constraints)
                /\ \A k \in 1..Len(constraints) :
                      /\ data.constraints[k].a1 = constraints[k].a1
                      /\ data.constraints[k].a2 = constraints[k].a2
                      /\ data.constraints[k].b = constraints[k].b
                      /\ constraints[k].constraint_type = LESS_EQUAL
                            <=> data.constraints[k].type = "U+2264"
                      /\ constraints[k].constraint_type = EQUAL
                            <=> data.constraints[k].type = "="
                      /\ constraints[k].constraint_type = GREATER_EQUAL
                            <=> data.constraints[k].type = "U+2265")
    /\ [][ret'.op = "from_dict" =>
             /\ c1' = c1
             /\ c2' = c2
             /\ constraints' = constraints]_vars

\* from_dict has rebuilt a problem with a non-zero objective and two
\* constraints of different kinds, one of them of the kind <=
C17_Witness ==
    /\ Returned("from_dict")
    /\ c1 # 0
    /\ Len(constraints) = 2
    /\ constraints[1].constraint_type = LESS_EQUAL
    /\ constraints[2].constraint_type # LESS_EQUAL
    /\ Len(ret.res.val.constraints) = 2

---------------------------------------------------------------------------
(* C18: with a gradient of norm below 1e-10, in particular c1 = c2 = 0,      *)
(* move_in_gradient_direction returns the point (x1, x2) it was given, for   *)
(* every step and either value of anti_gradient, and raises no error.        *)
C18_ZeroGradientNoMove ==
    (Returned("move_in_gradient_direction") /\ c1 = 0 /\ c2 = 0) =>
        /\ ~ret.res.none
        /\ ret.res.val = <<ret.args[1], ret.args[2]>>

\* a move by a non-zero step was asked of a problem with c1 = c2 = 0, from a
\* point other than the origin
C18_Witness ==
    /\ Returned("move_in_gradient_direction")
    /\ c1 = 0 /\ c2 = 0
    /\ ret.args[3] # RatInt(0)
    /\ ret.args[4]
    /\ ret.args[1] # RatInt(0)

---------------------------------------------------------------------------
\* the components of new - old as fractions over one denominator den
MovedNum(new, old) == new.n * old.d - old.n * new.d
MovedDen(new, old) == new.d * old.d

(* C19: for a non-zero gradient move_in_gradient_direction returns           *)
(* (x1 + step*u1, x2 + step*u2) with (u1, u2) the unit vector of (c1, c2),   *)
(* negated when anti_gradient is true: the displacement is parallel to       *)
(* (c1, c2), has length |step| and points along the gradient when step > 0   *)
(* and anti_gradient is false.  So step = 0 returns the point given, and     *)
(* anti_gradient = true with step s gives the point of anti_gradient = false *)
(* with step -s.  The call does not modify the problem.                      *)
C19_UnitStepAlongGradient ==
    /\ [](( Returned("move_in_gradient_direction") /\ (c1 # 0 \/ c2 # 0)) =>
            LET x1   == ret.args[1]
                x2   == ret.args[2]
                step == ret.args[3]
                anti == ret.args[4]
                new  == ret.res.val
                d1   == MovedNum(new[1], x1) * MovedDen(new[2], x2)
                d2   == MovedNum(new[2], x2) * MovedDen(new[1], x1)
                den  == MovedDen(new[1], x1) * MovedDen(new[2], x2)
                sign == IF anti THEN -1 ELSE 1
            IN  /\ d1 * c2 = d2 * c1
                /\ (d1 * d1 + d2 * d2) * step.d * step.d = step.n * step.n * den * den
                /\ step.n # 0 => (d1 * c1 + d2 * c2) * step.n * sign > 0
                /\ step.n = 0 => new = <<x1, x2>>
                /\ new = move_in_gradient_direction(Problem, x1, x2, RatNeg(step), ~anti))
    /\ [][ret'.op = "move_in_gradient_direction" =>
             UNCHANGED <<c1, c2, constraints, corner_points>>]_vars

\* a move by a non-zero step against a gradient with two non-zero components
\* was made on a problem that has a constraint
C19_Witness ==
    /\ Returned("move_in_gradient_direction")
    /\ c1 # 0 /\ c2 # 0
    /\ ret.args[3] = Rat(1, 2)
    /\ ret.args[4]
    /\ ret.res.val # <<ret.args[1], ret.args[2]>>
    /\ constraints # <<>>

---------------------------------------------------------------------------
\* the point move_in_gradient_direction gives from the current point
MovedPoint(step_size, anti_gradient) ==
    move_in_gradient_direction(Problem, main_window.current_point[1],
                               main_window.current_point[2], step_size, anti_gradient)

CurrentPointFeasible ==
    is_feasible(Problem, main_window.current_point[1], main_window.current_point[2])

(* C20: on_move_requested replaces current_point by the point returned from  *)
(* move_in_gradient_direction only when is_feasible holds for that point,    *)
(* and leaves current_point unchanged otherwise; so while the constraints do *)
(* not change, a feasible current point stays feasible after every move      *)
(* request, from the buttons or from the arrow keys.                         *)
C20_InfeasibleMovesRejected ==
    /\ [][ret'.op = "on_move_requested" =>
             LET new == MovedPoint(ret'.args[1], ret'.args[2])
             IN  main_window'.current_point =
                     IF is_feasible(Problem, new[1], new[2])
                         THEN new
                         ELSE main_window.current_point]_vars
    /\ [][(/\ ret'.op \in {"on_move_requested", "keyPressEvent"}
           /\ constraints' = constraints
           /\ CurrentPointFeasible)
             => CurrentPointFeasible']_vars

\* a move request has been made from a feasible point off the start, and the
\* same request made again would leave the feasible region
C20_Witness ==
    /\ ret.op \in {"on_move_requested", "keyPressEvent"}
    /\ CurrentPointFeasible
    /\ main_window.current_point # <<RatInt(0), RatInt(0)>>
    /\ constraints # <<>>
    /\ \E step_size \in SpinnerSteps, anti_gradient \in BOOLEAN :
          LET new == MovedPoint(step_size, anti_gradient)
          IN  ~is_feasible(Problem, new[1], new[2])

---------------------------------------------------------------------------
\* the lines parse_constraint is documented to refuse: no relation sign, two
\* relation signs, a right-hand side that is not a number
RefusedLines == {"x1 < 2", "x1 <= 2 <= 3", "x1 == 2", "x1 <= z"}
BlankLines == {"", "  "}

\* the objective texts that cannot be read as coefficients
UnreadableObjectives == {"2x1x2"}

\* the line becomes a constraint
Kept(line) == line \notin BlankLines /\ ~parse_constraint(line).none

(* C21: create_problem_from_text never raises: an objective that cannot be   *)
(* parsed gives c1 = c2 = 0; every blank line and every line for which        *)
(* parse_constraint returns None (no relation sign, more than one split, a    *)
(* right-hand side that is not a number) is skipped; the other lines become   *)
(* the constraints, in the order of their lines.                              *)
C21_CreateProblemSkipsBadLines ==
    /\ Returned("parse_constraint") =>
          (ret.args[1] \in RefusedLines => ret.res.none)
    /\ Returned("create_problem_from_text") =>
          LET kept == SelectSeq(ret.lines, Kept)
          IN  /\ <<c1, c2>> = parse_objective_function(ret.args[1])
              /\ ret.args[1] \in UnreadableObjectives => (c1 = 0 /\ c2 = 0)
              /\ Len(constraints) = Len(kept)
              /\ \A k \in 1..Len(kept) :
                    LET data == parse_constraint(kept[k]).val
                    IN  constraints[k] = Constraint(data[1], data[2], data[3], data[4])
              /\ \A k \in 1..Len(ret.lines) :
                    ret.lines[k] \in (RefusedLines \cup BlankLines) => ~Kept(ret.lines[k])
              /\ corner_points = <<>>

\* a problem was created from an objective that cannot be read and from a
\* refused line followed by a line that is kept
C21_Witness ==
    /\ Returned("create_problem_from_text")
    /\ ret.args[1] \in UnreadableObjectives
    /\ Len(ret.lines) = 2
    /\ ret.lines[1] \in RefusedLines
    /\ Len(constraints) = 1
    /\ constraints[1].a1 # 0

---------------------------------------------------------------------------
\* texts of the documented forms "c1*x1 + c2*x2" and
\* "a1*x1 + a2*x2 {<=,=,>=} b" with the values they are written from
DocumentedObjectives ==
    {[text |-> "2*x1 + 3*x2", val |-> <<2, 3>>],
     [text |-> "1*x1 + 0*x2", val |-> <<1, 0>>]}
DocumentedConstraints ==
    {[text |-> "1*x1 + 0*x2 <= 4", val |-> <<1, 0, 4, LESS_EQUAL>>],
     [text |-> "2*x1 + 3*x2 = 6",  val |-> <<2, 3, 6, EQUAL>>],
     [text |-> "0*x1 + 1*x2 >= 0", val |-> <<0, 1, 0, GREATER_EQUAL>>]}

(* C22: parse_objective_function applied to a text of the documented form   *)
(* "c1*x1 + c2*x2" returns (c1, c2), and parse_constraint applied to a text   *)
(* of the documented form "a1*x1 + a2*x2 {<=,=,>=} b" returns                 *)
(* (a1, a2, b, kind) with the kind of the relation sign.                      *)
C22_DocumentedFormsParsed ==
    /\ Returned("parse_objective_function") =>
          \A d \in DocumentedObjectives :
              ret.args[1] = d.text => ret.res.val = d.val
    /\ Returned("parse_constraint") =>
          \A d \in DocumentedConstraints :
              ret.args[1] = d.text => ret.res = Some(d.val)

---------------------------------------------------------------------------
\* the same number, whatever the representation of the two fractions
SameNumber(r, s) == r.n * s.d = s.n * r.d

\* C23: Constraint.get_line_points((xMin, xMax)) returns two empty
\* sequences when a1 and a2 are both (nearly) zero; for a vertical line
\* (a2 nearly zero, a1 not) it returns ([b/a1, b/a1], [xMin, xMax]) when
\* xMin <= b/a1 <= xMax and two empty sequences otherwise; in every other
\* case it returns ([xMin, xMax], [(b - a1*xMin)/a2, (b - a1*xMax)/a2]).
\* The two sequences always have the same length, 0 or 2.
C23_LinePoints ==
    Returned("get_line_points") =>
        LET c == constraints[ret.args[1]]
            xMin == ret.args[2][1]
            xMax == ret.args[2][2]
            x1_points == ret.res[1]
            x2_points == ret.res[2]
        IN  /\ Len(x1_points) = Len(x2_points)
            /\ Len(x1_points) \in {0, 2}
            /\ (NearZero(c.a1) /\ NearZero(c.a2)) =>
                   x1_points = <<>> /\ x2_points = <<>>
            /\ (NearZero(c.a2) /\ ~NearZero(c.a1)) =>
                   IF c.a1 > 0
                   THEN IF /\ c.a1 * xMin.n <= c.b * xMin.d
                           /\ c.b * xMax.d <= c.a1 * xMax.n
                        THEN /\ Len(x1_points) = 2
                             /\ x1_points[1] = x1_points[2]
                             /\ SameNumber(RatScale(c.a1, x1_points[1]), RatInt(c.b))
                             /\ x2_points = <<xMin, xMax>>
                        ELSE x1_points = <<>> /\ x2_points = <<>>
                   ELSE IF /\ c.a1 * xMin.n >= c.b * xMin.d
                           /\ c.b * xMax.d >= c.a1 * xMax.n
                        THEN /\ Len(x1_points) = 2
                             /\ x1_points[1] = x1_points[2]
                             /\ SameNumber(RatScale(c.a1, x1_points[1]), RatInt(c.b))
                             /\ x2_points = <<xMin, xMax>>
                        ELSE x1_points = <<>> /\ x2_points = <<>>
            /\ ~NearZero(c.a2) =>
                   /\ x1_points = <<xMin, xMax>>
                   /\ Len(x2_points) = 2
                   /\ OnLine(c, xMin, x2_points[1])
                   /\ OnLine(c, xMax, x2_points[2])

\* a vertical line outside the range was refused
C23_Witness ==
    /\ Returned("get_line_points")
    /\ constraints[ret.args[1]].a2 = 0
    /\ constraints[ret.args[1]].a1 = -2
    /\ constraints[ret.args[1]].b = 4
    /\ ret.args[2] = <<RatInt(0), RatInt(2)>>
    /\ ret.res = << <<>>, <<>> >>

---------------------------------------------------------------------------
\* the vertices of the feasible region: the intersections of two boundary
\* lines that satisfy every constraint.  A bounded region that is not empty
\* has a vertex, and the objective attains its maximum over the region at
\* one.
Vertices ==
    {Intersection(At(pr[1]), At(pr[2])) :
        pr \in {q \in Pairs(Len(constraints)) :
                   /\ ~Parallel(At(q[1]), At(q[2]))
                   /\ is_feasible(Problem, Intersection(At(q[1]), At(q[2]))[1],
                                           Intersection(At(q[1]), At(q[2]))[2])}}

\* C24: when Calculator.is_bounded() is true, find_optimal_solution is
\* exact: it returns None if and only if the feasible region is empty, and
\* otherwise the returned value is >= objective_value at every feasible
\* point, the maximum over the region being attained at a vertex.
C24_BoundedProblemSolvedExactly ==
    (Returned("find_optimal_solution") /\ is_bounded(Problem)) =>
        /\ ret.res.none <=> Vertices = {}
        /\ ~ret.res.none =>
               /\ ~undetermined(ret.res.val[1], ret.res.val[2])
               /\ is_feasible(Problem, ret.res.val[1], ret.res.val[2])
               /\ \A pt \in Vertices : RatLeq(Objective(pt[1], pt[2]), ret.res.val[3])

---------------------------------------------------------------------------
\* C25: the graph never shows corner points of an outdated constraint list:
\* whenever LPVisualizer.draw_corner_points has run, the points it plotted
\* are the corner points of the constraints the problem had at that draw.
C25_GraphShowsCurrentCornerPoints ==
    main_window.graph_corner_points =
        find_corner_points([Problem EXCEPT
            !.constraints = main_window.graph_constraints]).val
---------------------------------------------------------------------------
\* the handlers that end in update_lp_problem (new and open go on to reset
\* and redraw the current point)
UpdatingHandlers ==
    {"on_coefficients_changed", "on_constraints_changed", "remove_constraint",
     "on_new_problem", "on_open_problem"}

\* the constraint a table row stands for
RowConstraint(row) ==
    Constraint(row.a1, row.a2, row.b,
               CASE row.sign_text = GlyphLE -> LESS_EQUAL
                 [] row.sign_text = GlyphEQ -> EQUAL
                 [] row.sign_text = GlyphGE -> GREATER_EQUAL)

\* C26: on completion of every MainWindow.update_lp_problem (hence after
\* every coefficient edit, constraint edit, new-problem and open-problem
\* handler) the problem's constraint list equals the rows of the constraints
\* table in row order, the cached corner_points equals find_corner_points
\* evaluated on that list, and the Calculator, the visualizer and the
\* corner-points widget all refer to that same problem object.
C26_UpdateLpProblemPostcondition ==
    (ret.op \in UpdatingHandlers) =>
        /\ Len(constraints) = Len(main_window.rows)
        /\ \A k \in 1..Len(constraints) :
              constraints[k] = RowConstraint(main_window.rows[k])
        /\ corner_points = corner_loop(Problem, 0, 1, <<>>)
        /\ main_window.calculator_lp_problem = main_window.lp_problem
        /\ main_window.visualizer_lp_problem = main_window.lp_problem
        /\ main_window.widget_lp_problem = main_window.lp_problem

\* a row was edited while corner points were cached: the list follows the
\* table and the cache holds other points than the graph last plotted
C26_Witness ==
    /\ Returned("on_constraints_changed")
    /\ Len(constraints) = 2
    /\ corner_points # <<>>
    /\ main_window.graph_corner_points # <<>>
    /\ corner_points # main_window.graph_corner_points

---------------------------------------------------------------------------
\* a1*x1 + a2*x2 = b for the constraint c, and the same within 1e-10
ActiveAt(c, x1, x2) ==
    RatAdd(RatScale(c.a1, x1), RatScale(c.a2, x2)).n = c.b * x1.d * x2.d

NearlyActiveAt(c, x1, x2) ==
    LeqEps(RatAbs(RatSub(left_side(c, x1, x2), RatInt(c.b))))

---------------------------------------------------------------------------
\* no two boundary lines of the list meet in one point; so it is for every
\* list of fewer than two constraints
AllParallel ==
    \A pr \in Pairs(Len(constraints)) : Parallel(At(pr[1]), At(pr[2]))

\* C28: with fewer than two constraints, or when all boundary lines are
\* mutually parallel, find_corner_points returns an empty sequence and
\* find_optimal_solution returns None, even when feasible points exist; with
\* an empty constraint list suggest_initial_point falls through to the grid
\* and returns its first sample (0, 0).
C28_NoIntersectionNoSolution ==
    /\ (Returned("find_corner_points") /\ AllParallel) => ret.res.val = <<>>
    /\ (Returned("find_optimal_solution") /\ AllParallel) => ret.res.none
    /\ (Returned("suggest_initial_point") /\ constraints = <<>>) =>
           /\ ~ret.res.none
           /\ ret.res.val[1].n = 0
           /\ ret.res.val[2].n = 0


---------------------------------------------------------------------------
\* the equations that are added to a list
AddedEquations == {x1_eq_2, x2_eq_3, line_eq, Constraint(-1, 0, 0, EQUAL)}

\* C29: equality constraints never count as bounds in is_bounded: adding or
\* removing any EQ-kind constraint leaves the result of
\* Calculator.is_bounded unchanged, so that a problem whose only
\* constraints are x1 = p and x2 = q is reported as not bounded.
C29_EquationsAreNoBounds ==
    Returned("is_bounded") =>
        /\ \A e \in AddedEquations :
              is_bounded(add_constraint(Problem, e.a1, e.a2, e.b, e.constraint_type))
                  = ret.res.val
        /\ \A index \in 0..(Len(constraints) - 1) :
              At(index).constraint_type = EQUAL =>
                  is_bounded(remove_constraint(Problem, index)) = ret.res.val
        /\ (constraints # <<>> /\ \A index \in 0..(Len(constraints) - 1) :
                                     At(index).constraint_type = EQUAL)
               => ret.res.val = FALSE

\* the problem with the constraints x1 = 2 and x2 = 3 was asked and is
\* reported as not bounded
C29_Witness ==
    /\ Returned("is_bounded")
    /\ constraints = <<x1_eq_2, x2_eq_3>>
    /\ ret.res.val = FALSE

---------------------------------------------------------------------------
\* type strings that are none of the three glyphs
UnrecognizedTypes == {"<=", ">=", "==", ""}

\* C30: LPProblem.from_dict maps the type string of the glyph for "less or
\* equal" to LESS_EQUAL and "=" to EQUAL, and maps every other type string,
\* unrecognized or misspelled ones such as "<=" included, to GREATER_EQUAL
\* without raising an error; the constraint is still added, so that the
\* number and the order of the constraints are those of the input record.
C30_FromDictUnknownTypeIsGreaterEqual ==
    Returned("from_dict") =>
        LET records == ret.args.constraints
        IN  /\ Len(constraints) = Len(records)
            /\ \A k \in 1..Len(records) :
                  /\ constraints[k].a1 = records[k].a1
                  /\ constraints[k].a2 = records[k].a2
                  /\ constraints[k].b = records[k].b
                  /\ records[k].type = GlyphLE =>
                         constraints[k].constraint_type = LESS_EQUAL
                  /\ records[k].type = GlyphEQ =>
                         constraints[k].constraint_type = EQUAL
                  /\ records[k].type \in UnrecognizedTypes \cup {GlyphGE} =>
                         constraints[k].constraint_type = GREATER_EQUAL

\* a dictionary with the type "<=" before a record with the glyph was loaded
C30_Witness ==
    /\ Returned("from_dict")
    /\ Len(constraints) = 2
    /\ ret.args.constraints[1].type = "<="
    /\ ret.args.constraints[2].type = GlyphLE
    /\ constraints[1].constraint_type = GREATER_EQUAL
    /\ constraints[2].constraint_type = LESS_EQUAL

=============================================================================
